---- MODULE Spec2Model ----
(***************************************************************************)
(* Model of wstux/thread_safe_lru_cache: the single-shard LRU engine       *)
(* (libs/lru/details/std_lru_cache.h) and the single-shard TTL engine      *)
(* (libs/ttl/ttl_cache.h over libs/ttl/details/base_ttl_cache.h).          *)
(*                                                                         *)
(* A cache object is a record whose fields carry the names of the C++      *)
(* members.  Every public method is a pure operator from the object (and   *)
(* the call's arguments) to the object after the call together with the    *)
(* call's results; an action of the specification applies one method.      *)
(*                                                                         *)
(* The caches are instantiated as in the unit tests, <size_t, std::string>.*)
(* The engines copy and assign values and never inspect them, so two       *)
(* distinct strings stand for value_type.                                  *)
(***************************************************************************)
EXTENDS Integers, Sequences, FiniteSets, TLC

\* ------------------------------------------------------------------ bounds
MaxKey == 2
MaxCapacity == 2
MaxTtl == 0
MaxNow == 1

\* The sharded cache: shards asked for, capacity, keys, threads' calls.
MaxShards == 2
MaxShardedCapacity == 3
MaxShardedKey == 3
MaxCalls == 2

\* key_type is size_t; the driver draws keys from a small set.
Keys == 0 .. MaxKey

\* std::string(count, ch).
RECURSIVE std_string(_, _)
std_string(count, ch) == IF count = 0 THEN "" ELSE ch \o std_string(count - 1, ch)

\* The values the tests store: std::string(3, 'a') and std::string(4, 'b').
Values == {"aaa", "bbbb"}

\* The constructor arguments the tests pass to emplace(key, count, ch).
EmplaceArgs == {<<3, "a">>, <<4, "b">>}

\* value_type(std::forward<TArgs>(args)...).
value_type(args) == std_string(args[1], args[2])

\* `value_type val;` of the caller before find() assigns it.
NoValue == ""

VARIABLES
    cache_type,   \* which cache class the program constructed: "lru" | "ttl"
    lru,          \* the lru_cache object
    ttl,          \* the ttl_cache object
    now,          \* std::chrono::steady_clock::now(), in milliseconds
    last,         \* the last call: method, arguments and results
    run,          \* the calls made since the cache was last empty by
                  \* construction, clear or reset, while they follow the
                  \* tests' scenario: fill, one access, one more insert
    since         \* the call that last emptied the cache, with the capacity
                  \* and the time to live it was given

VARIABLES
    cache,        \* the sharded cache: m_capacity and m_shards, a shard being
                  \* [first: its engine, second: the m_lock of its spinlock]
    thr,          \* per thread: where it is in its call, the call's arguments
                  \* and the calls it still has to make
    built,        \* the arguments the sharded cache was constructed with
    order,        \* the keys stored in the sharded cache, least recently
                  \* touched first, over all shards
    tally         \* the inserts that returned true, and whether one evicted

\* What the methods of the single cache leave alone.
aux == <<since, cache, thr, built, order, tally>>

vars == <<cache_type, lru, ttl, now, last, run, aux>>

\* ------------------------------------------------- std containers in use
\* std::unordered_map::emplace(key, value): no effect when the key exists.
map_emplace(m, key, val) ==
    IF key \in DOMAIN m THEN m
    ELSE [x \in (DOMAIN m) \cup {key} |-> IF x = key THEN val ELSE m[x]]

\* std::unordered_map::erase(key) / erase(it).
map_erase(m, key) == [x \in (DOMAIN m) \ {key} |-> m[x]]

\* std::list::erase(it), `it` being the node that holds `key`.
list_erase(list, key) == SelectSeq(list, LAMBDA x : x # key)

\* ------------------------------------------------------------ lru_cache
\* Variant: the node stays where it is.
lru_cache_move_to_top_stay(list, key) == list

\* move_to_top: list.splice(list.end(), list, it).
lru_cache_move_to_top(list, key) == list_erase(list, key) \o <<key>>

lru_cache_ctor(capacity) ==
    [m_capacity |-> capacity, m_size |-> 0, m_cache |-> <<>>, m_lru_list |-> <<>>]

lru_cache_size(c) == c.m_size

lru_cache_capacity(c) == c.m_capacity

\* Variant: the list grows without a capacity test.
lru_cache_insert_to_cache_unbounded(c, key, val) ==
    [c EXCEPT !.m_cache = map_emplace(c.m_cache, key, val),
              !.m_lru_list = Append(c.m_lru_list, key),
              !.m_size = c.m_size + 1]

\* Variant: a full cache reuses the node at the back of the list.
lru_cache_insert_to_cache_back(c, key, val) ==
    IF c.m_size >= c.m_capacity /\ c.m_lru_list # <<>>
    THEN LET victim == c.m_lru_list[Len(c.m_lru_list)] IN
         [c EXCEPT !.m_cache = map_emplace(map_erase(c.m_cache, victim), key, val),
                   !.m_lru_list = SubSeq(c.m_lru_list, 1, Len(c.m_lru_list) - 1)
                                      \o <<key>>]
    ELSE lru_cache_insert_to_cache_unbounded(c, key, val)

\* Variant: the cache evicts only once it holds more than its capacity.
lru_cache_insert_to_cache_late(c, key, val) ==
    IF c.m_size > c.m_capacity
    THEN LET erased == map_erase(c.m_cache, Head(c.m_lru_list))
             reused == <<key>> \o Tail(c.m_lru_list)
         IN  [c EXCEPT !.m_cache = map_emplace(erased, key, val),
                       !.m_lru_list = lru_cache_move_to_top(reused, key)]
    ELSE [c EXCEPT !.m_lru_list = Append(c.m_lru_list, key),
                   !.m_cache = map_emplace(c.m_cache, key, val),
                   !.m_size = c.m_size + 1]

\* insert_to_cache: a full cache erases the head's key from the index, reuses
\* the head node for the new key and moves it to the back; else it appends.
lru_cache_insert_to_cache(c, key, val) ==
    IF c.m_size >= c.m_capacity
    THEN LET erased == map_erase(c.m_cache, Head(c.m_lru_list))
             reused == <<key>> \o Tail(c.m_lru_list)
         IN  [c EXCEPT !.m_cache = map_emplace(erased, key, val),
                       !.m_lru_list = lru_cache_move_to_top(reused, key)]
    ELSE [c EXCEPT !.m_lru_list = Append(c.m_lru_list, key),
                   !.m_cache = map_emplace(c.m_cache, key, val),
                   !.m_size = c.m_size + 1]

\* Variant: the containers are cleared, m_size is left as it was.
lru_cache_clear_keep_size(c) == [c EXCEPT !.m_cache = <<>>, !.m_lru_list = <<>>]

\* clear: m_size = 0; m_cache.clear(); m_lru_list.clear().
lru_cache_clear(c) == [c EXCEPT !.m_size = 0, !.m_cache = <<>>, !.m_lru_list = <<>>]

lru_cache_empty(c) == lru_cache_size(c) = 0

\* base_lru_cache::reset: clear(), then the new capacity.
base_lru_cache_reset(c, new_capacity) ==
    [lru_cache_clear(c) EXCEPT !.m_capacity = new_capacity]

\* Each method yields [c: the object after the call, ret: the bool returned
\* (TRUE for void methods), result: the out-parameter of find].
lru_cache_contains(c, key) ==
    IF key \in DOMAIN c.m_cache
    THEN [c |-> [c EXCEPT !.m_lru_list = lru_cache_move_to_top(c.m_lru_list, key)],
          ret |-> TRUE, result |-> NoValue]
    ELSE [c |-> c, ret |-> FALSE, result |-> NoValue]

lru_cache_emplace(c, key, args) ==
    IF key \in DOMAIN c.m_cache
    THEN [c |-> [c EXCEPT !.m_lru_list = lru_cache_move_to_top(c.m_lru_list, key)],
          ret |-> FALSE, result |-> NoValue]
    ELSE [c |-> lru_cache_insert_to_cache(c, key, value_type(args)),
          ret |-> TRUE, result |-> NoValue]

\* Variant: the element count is not maintained.
lru_cache_erase_keep_size(c, key) ==
    IF key \in DOMAIN c.m_cache
    THEN [c |-> [c EXCEPT !.m_lru_list = list_erase(c.m_lru_list, key),
                          !.m_cache = map_erase(c.m_cache, key)],
          ret |-> TRUE, result |-> NoValue]
    ELSE [c |-> c, ret |-> TRUE, result |-> NoValue]

lru_cache_erase(c, key) ==
    IF key \in DOMAIN c.m_cache
    THEN [c |-> [c EXCEPT !.m_lru_list = list_erase(c.m_lru_list, key),
                          !.m_cache = map_erase(c.m_cache, key),
                          !.m_size = c.m_size - 1],
          ret |-> TRUE, result |-> NoValue]
    ELSE [c |-> c, ret |-> TRUE, result |-> NoValue]

lru_cache_find(c, key) ==
    IF key \notin DOMAIN c.m_cache
    THEN [c |-> c, ret |-> FALSE, result |-> NoValue]
    ELSE [c |-> [c EXCEPT !.m_lru_list = lru_cache_move_to_top(c.m_lru_list, key)],
          ret |-> TRUE, result |-> c.m_cache[key]]

\* Variant: a stored key is left where it is in the list.
lru_cache_insert_untouched(c, key, val) ==
    IF key \in DOMAIN c.m_cache
    THEN [c |-> c, ret |-> FALSE, result |-> NoValue]
    ELSE [c |-> lru_cache_insert_to_cache(c, key, val), ret |-> TRUE, result |-> NoValue]

\* Variant: a stored key takes the value passed.
lru_cache_insert_assign(c, key, val) ==
    IF key \in DOMAIN c.m_cache
    THEN [c |-> [c EXCEPT !.m_cache[key] = val,
                          !.m_lru_list = lru_cache_move_to_top(c.m_lru_list, key)],
          ret |-> FALSE, result |-> NoValue]
    ELSE [c |-> lru_cache_insert_to_cache(c, key, val), ret |-> TRUE, result |-> NoValue]

\* Variant: insert reports true also for a key that is stored.
lru_cache_insert_true(c, key, val) ==
    IF key \in DOMAIN c.m_cache
    THEN [c |-> [c EXCEPT !.m_lru_list = lru_cache_move_to_top(c.m_lru_list, key)],
          ret |-> TRUE, result |-> NoValue]
    ELSE [c |-> lru_cache_insert_to_cache(c, key, val), ret |-> TRUE, result |-> NoValue]

lru_cache_insert(c, key, val) ==
    IF key \in DOMAIN c.m_cache
    THEN [c |-> [c EXCEPT !.m_lru_list = lru_cache_move_to_top(c.m_lru_list, key)],
          ret |-> FALSE, result |-> NoValue]
    ELSE [c |-> lru_cache_insert_to_cache(c, key, val), ret |-> TRUE, result |-> NoValue]

\* Variant: a stored key keeps its value.
lru_cache_update_keep(c, key, val) ==
    IF key \in DOMAIN c.m_cache
    THEN [c |-> [c EXCEPT !.m_lru_list = lru_cache_move_to_top(c.m_lru_list, key)],
          ret |-> TRUE, result |-> NoValue]
    ELSE [c |-> lru_cache_insert_to_cache(c, key, val), ret |-> TRUE, result |-> NoValue]

lru_cache_update(c, key, val) ==
    IF key \in DOMAIN c.m_cache
    THEN [c |-> [c EXCEPT !.m_cache[key] = val,
                          !.m_lru_list = lru_cache_move_to_top(c.m_lru_list, key)],
          ret |-> TRUE, result |-> NoValue]
    ELSE [c |-> lru_cache_insert_to_cache(c, key, val), ret |-> TRUE, result |-> NoValue]

\* ------------------------------------------------------- base_ttl_cache
\* The intrusive backend: m_hash_tbl holds the nodes by key, a node being
\* [value, time_point]; m_ttl_list orders the same nodes, named by key.
base_ttl_cache_ctor(ttl_msecs, capacity) ==
    [m_capacity |-> capacity, m_time_to_live |-> ttl_msecs,
     m_hash_tbl |-> <<>>, m_ttl_list |-> <<>>]

base_ttl_cache_size(c) == Cardinality(DOMAIN c.m_hash_tbl)

base_ttl_cache_capacity(c) == c.m_capacity

base_ttl_cache_is_find(c, key) == key \in DOMAIN c.m_hash_tbl

\* ttl_node(k, v): time_point(_clock_t::now()).
ttl_node(val, clock) == [value |-> val, time_point |-> clock]

\* Variant: an entry expires as soon as its age reaches the time to live.
base_ttl_cache_is_expired_at(c, key, clock) ==
    (clock - c.m_hash_tbl[key].time_point) >= c.m_time_to_live

\* Variant: no entry ever expires.
base_ttl_cache_is_expired_never(c, key, clock) == FALSE

base_ttl_cache_is_expired(c, key, clock) ==
    (clock - c.m_hash_tbl[key].time_point) > c.m_time_to_live

base_ttl_cache_move_to_top(c, key) ==
    [c EXCEPT !.m_ttl_list = list_erase(c.m_ttl_list, key) \o <<key>>]

\* Variant: the iterator is not tested against end(); a key that is not
\* stored takes the first node of the list with it.
base_ttl_cache_erase_unchecked(c, key) ==
    LET it == IF key \in DOMAIN c.m_hash_tbl \/ c.m_ttl_list = <<>>
              THEN key ELSE Head(c.m_ttl_list)
    IN  [c EXCEPT !.m_ttl_list = list_erase(c.m_ttl_list, it),
                  !.m_hash_tbl = map_erase(c.m_hash_tbl, it)]

\* Variant: the node leaves the hash table and stays in the list.
base_ttl_cache_erase_index(c, key) ==
    [c EXCEPT !.m_hash_tbl = map_erase(c.m_hash_tbl, key)]

base_ttl_cache_erase(c, key) ==
    IF key \in DOMAIN c.m_hash_tbl
    THEN [c EXCEPT !.m_ttl_list = list_erase(c.m_ttl_list, key),
                   !.m_hash_tbl = map_erase(c.m_hash_tbl, key)]
    ELSE c

base_ttl_cache_store(c, key, val) == [c EXCEPT !.m_hash_tbl[key].value = val]

base_ttl_cache_load(c, key) == c.m_hash_tbl[key].value

\* Variant: the node is linked at the front of the list.
base_ttl_cache_insert_node_front(c, key, node) ==
    [c EXCEPT !.m_hash_tbl = map_emplace(c.m_hash_tbl, key, node),
              !.m_ttl_list = <<key>> \o c.m_ttl_list]

\* insert_node: unordered_set::insert(*p_node) and list insert at end().
base_ttl_cache_insert_node(c, key, node) ==
    [c EXCEPT !.m_hash_tbl = map_emplace(c.m_hash_tbl, key, node),
              !.m_ttl_list = Append(c.m_ttl_list, key)]

\* Variant: a full cache gives up an expired entry before the list head.
base_ttl_cache_insert_expired_first(c, key, val, clock) ==
    IF base_ttl_cache_size(c) >= c.m_capacity
    THEN LET stale == SelectSeq(c.m_ttl_list,
                                LAMBDA x : (clock - c.m_hash_tbl[x].time_point)
                                               > c.m_time_to_live)
             victim == IF stale # <<>> THEN Head(stale) ELSE Head(c.m_ttl_list)
             p_node == c.m_hash_tbl[victim]
             extracted == [c EXCEPT !.m_hash_tbl = map_erase(c.m_hash_tbl, victim),
                                    !.m_ttl_list = list_erase(c.m_ttl_list, victim)]
         IN  base_ttl_cache_insert_node(extracted, key, [p_node EXCEPT !.value = val])
    ELSE base_ttl_cache_insert_node(c, key, ttl_node(val, clock))

\* Variant: the reused node gets the new key and keeps the value it had.
base_ttl_cache_insert_stale(c, key, val, clock) ==
    IF base_ttl_cache_size(c) >= c.m_capacity
    THEN LET victim == Head(c.m_ttl_list)
             p_node == c.m_hash_tbl[victim]
             extracted == [c EXCEPT !.m_hash_tbl = map_erase(c.m_hash_tbl, victim),
                                    !.m_ttl_list = Tail(c.m_ttl_list)]
         IN  base_ttl_cache_insert_node(extracted, key, p_node)
    ELSE base_ttl_cache_insert_node(c, key, ttl_node(val, clock))

\* insert: when full the head node is extracted and reused with the new key
\* and value (its time_point is not assigned), else a node is constructed.
base_ttl_cache_insert(c, key, val, clock) ==
    IF base_ttl_cache_size(c) >= c.m_capacity
    THEN LET victim == Head(c.m_ttl_list)
             p_node == c.m_hash_tbl[victim]
             extracted == [c EXCEPT !.m_hash_tbl = map_erase(c.m_hash_tbl, victim),
                                    !.m_ttl_list = Tail(c.m_ttl_list)]
         IN  base_ttl_cache_insert_node(extracted, key, [p_node EXCEPT !.value = val])
    ELSE base_ttl_cache_insert_node(c, key, ttl_node(val, clock))

base_ttl_cache_clear(c) == [c EXCEPT !.m_hash_tbl = <<>>, !.m_ttl_list = <<>>]

\* Variant: the time to live given to reset is dropped.
base_ttl_cache_reset_keep_ttl(c, ttl_msecs, new_capacity) ==
    [base_ttl_cache_clear(c) EXCEPT !.m_capacity = new_capacity]

\* reset: clear(), then the new capacity and the new time to live.
base_ttl_cache_reset(c, ttl_msecs, new_capacity) ==
    [base_ttl_cache_clear(c) EXCEPT !.m_capacity = new_capacity,
                                    !.m_time_to_live = ttl_msecs]

\* ------------------------------------------- lru_cache, the simple variant
\* libs/lru/lru_cache.h keeps the most recent key at the FRONT of
\* m_lru_list and pops the victim from the back.
list_reverse(list) == [i \in 1..Len(list) |-> list[Len(list) + 1 - i]]

\* The variant's cache that holds the entries of c in the same recency order.
simple_lru_cache_of(c) == [c EXCEPT !.m_lru_list = list_reverse(c.m_lru_list)]

\* insert: m_cache.emplace fails on a stored key and insert returns false
\* at once; else the key is emplaced at the front and, when the cache was
\* full, the back of the list is popped and erased from the map.
simple_lru_cache_insert(c, key, val) ==
    IF key \in DOMAIN c.m_cache
    THEN [c |-> c, ret |-> FALSE, result |-> NoValue]
    ELSE LET emplaced == [c EXCEPT !.m_cache = map_emplace(c.m_cache, key, val),
                                   !.m_lru_list = <<key>> \o c.m_lru_list]
             back     == emplaced.m_lru_list[Len(emplaced.m_lru_list)]
         IN  IF c.m_size >= c.m_capacity
             THEN [c |-> [emplaced EXCEPT
                            !.m_lru_list = SubSeq(emplaced.m_lru_list, 1,
                                                  Len(emplaced.m_lru_list) - 1),
                            !.m_cache = map_erase(emplaced.m_cache, back)],
                   ret |-> TRUE, result |-> NoValue]
             ELSE [c |-> [emplaced EXCEPT !.m_size = c.m_size + 1],
                   ret |-> TRUE, result |-> NoValue]

\* ------------------------------------- base_ttl_cache, the std backend
\* std_base_ttl_cache.h keeps [value, time_point] by key in an
\* unordered_map and the keys in a std::list; the iterator ttl_it of an
\* entry is its place in m_ttl_list.
std_base_ttl_cache_move_to_top(c, key, clock) ==
    [c EXCEPT !.m_ttl_list = list_erase(c.m_ttl_list, key) \o <<key>>,
              !.m_hash_tbl[key].time_point = clock]

\* insert: a full cache erases the entry of the list front, names the new
\* key there, emplaces a new _table_value_t and moves it to the top.
std_base_ttl_cache_insert(c, key, val, clock) ==
    IF base_ttl_cache_size(c) >= c.m_capacity
    THEN LET erased == map_erase(c.m_hash_tbl, Head(c.m_ttl_list))
             reused == <<key>> \o Tail(c.m_ttl_list)
         IN  std_base_ttl_cache_move_to_top(
                 [c EXCEPT !.m_hash_tbl = map_emplace(erased, key, ttl_node(val, clock)),
                           !.m_ttl_list = reused],
                 key, clock)
    ELSE [c EXCEPT !.m_ttl_list = Append(c.m_ttl_list, key),
                   !.m_hash_tbl = map_emplace(c.m_hash_tbl, key, ttl_node(val, clock))]

\* ttl_cache::contains and ttl_cache::insert over the std backend.
std_ttl_cache_contains(c, key, clock) ==
    IF base_ttl_cache_is_find(c, key) /\ ~base_ttl_cache_is_expired(c, key, clock)
    THEN [c |-> std_base_ttl_cache_move_to_top(c, key, clock),
          ret |-> TRUE, result |-> NoValue]
    ELSE [c |-> c, ret |-> FALSE, result |-> NoValue]

std_ttl_cache_insert(c, key, val, clock) ==
    IF base_ttl_cache_is_find(c, key)
    THEN IF base_ttl_cache_is_expired(c, key, clock)
         THEN [c |-> std_base_ttl_cache_move_to_top(
                         base_ttl_cache_store(c, key, val), key, clock),
               ret |-> TRUE, result |-> NoValue]
         ELSE [c |-> std_base_ttl_cache_move_to_top(c, key, clock),
               ret |-> FALSE, result |-> NoValue]
    ELSE [c |-> std_base_ttl_cache_insert(c, key, val, clock),
          ret |-> TRUE, result |-> NoValue]

\* ------------------------------------------------------------ ttl_cache
ttl_cache_clear(c) == base_ttl_cache_clear(c)

ttl_cache_empty(c) == base_ttl_cache_size(c) = 0

ttl_cache_reset(c, ttl_msecs, new_capacity) ==
    base_ttl_cache_reset(c, ttl_msecs, new_capacity)

\* Variant: contains erases the entry it finds expired.
ttl_cache_contains_sweep(c, key, clock) ==
    IF base_ttl_cache_is_find(c, key)
    THEN IF base_ttl_cache_is_expired(c, key, clock)
         THEN [c |-> base_ttl_cache_erase(c, key), ret |-> FALSE, result |-> NoValue]
         ELSE [c |-> base_ttl_cache_move_to_top(c, key), ret |-> TRUE, result |-> NoValue]
    ELSE [c |-> c, ret |-> FALSE, result |-> NoValue]

ttl_cache_contains(c, key, clock) ==
    IF base_ttl_cache_is_find(c, key) /\ ~base_ttl_cache_is_expired(c, key, clock)
    THEN [c |-> base_ttl_cache_move_to_top(c, key), ret |-> TRUE, result |-> NoValue]
    ELSE [c |-> c, ret |-> FALSE, result |-> NoValue]

\* Variant: a stored key is only touched, expired or not.
ttl_cache_emplace_touch(c, key, args, clock) ==
    IF base_ttl_cache_is_find(c, key)
    THEN [c |-> base_ttl_cache_move_to_top(c, key), ret |-> FALSE, result |-> NoValue]
    ELSE [c |-> base_ttl_cache_insert(c, key, value_type(args), clock),
          ret |-> TRUE, result |-> NoValue]

ttl_cache_emplace(c, key, args, clock) ==
    IF base_ttl_cache_is_find(c, key)
    THEN IF base_ttl_cache_is_expired(c, key, clock)
         THEN [c |-> base_ttl_cache_move_to_top(
                         base_ttl_cache_store(c, key, value_type(args)), key),
               ret |-> TRUE, result |-> NoValue]
         ELSE [c |-> base_ttl_cache_move_to_top(c, key), ret |-> FALSE, result |-> NoValue]
    ELSE [c |-> base_ttl_cache_insert(c, key, value_type(args), clock),
          ret |-> TRUE, result |-> NoValue]

ttl_cache_erase(c, key) ==
    [c |-> base_ttl_cache_erase(c, key), ret |-> TRUE, result |-> NoValue]

\* Variant: an expired entry is reported absent and stays stored.
ttl_cache_find_keep(c, key, clock) ==
    IF base_ttl_cache_is_find(c, key) /\ ~base_ttl_cache_is_expired(c, key, clock)
    THEN [c |-> base_ttl_cache_move_to_top(c, key), ret |-> TRUE,
          result |-> base_ttl_cache_load(c, key)]
    ELSE [c |-> c, ret |-> FALSE, result |-> NoValue]

ttl_cache_find(c, key, clock) ==
    IF base_ttl_cache_is_find(c, key)
    THEN IF base_ttl_cache_is_expired(c, key, clock)
         THEN [c |-> base_ttl_cache_erase(c, key), ret |-> FALSE, result |-> NoValue]
         ELSE [c |-> base_ttl_cache_move_to_top(c, key), ret |-> TRUE,
               result |-> base_ttl_cache_load(c, key)]
    ELSE [c |-> c, ret |-> FALSE, result |-> NoValue]

\* Variant: a stored key is only touched, expired or not.
\* get: the optional returned is [ret: has_value(), result: the value].
ttl_cache_get(c, key, clock) ==
    IF base_ttl_cache_is_find(c, key) /\ ~base_ttl_cache_is_expired(c, key, clock)
    THEN [c |-> base_ttl_cache_move_to_top(c, key), ret |-> TRUE,
          result |-> base_ttl_cache_load(c, key)]
    ELSE [c |-> c, ret |-> FALSE, result |-> NoValue]

ttl_cache_insert_touch(c, key, val, clock) ==
    IF base_ttl_cache_is_find(c, key)
    THEN [c |-> base_ttl_cache_move_to_top(c, key), ret |-> FALSE, result |-> NoValue]
    ELSE [c |-> base_ttl_cache_insert(c, key, val, clock), ret |-> TRUE, result |-> NoValue]

ttl_cache_insert(c, key, val, clock) ==
    IF base_ttl_cache_is_find(c, key)
    THEN IF base_ttl_cache_is_expired(c, key, clock)
         THEN [c |-> base_ttl_cache_move_to_top(base_ttl_cache_store(c, key, val), key),
               ret |-> TRUE, result |-> NoValue]
         ELSE [c |-> base_ttl_cache_move_to_top(c, key), ret |-> FALSE, result |-> NoValue]
    ELSE [c |-> base_ttl_cache_insert(c, key, val, clock), ret |-> TRUE, result |-> NoValue]

ttl_cache_update(c, key, val, clock) ==
    IF base_ttl_cache_is_find(c, key)
    THEN [c |-> base_ttl_cache_move_to_top(base_ttl_cache_store(c, key, val), key),
          ret |-> TRUE, result |-> NoValue]
    ELSE [c |-> base_ttl_cache_insert(c, key, val, clock), ret |-> TRUE, result |-> NoValue]

ttl_cache_size(c) == base_ttl_cache_size(c)

ttl_cache_capacity(c) == base_ttl_cache_capacity(c)

\* ---------------------------------------------------------------- calls
\* The record of a call: method, key and value passed, whether the key was
\* found in the table (is_find) and, for the TTL cache, expired (is_expired)
\* on entry, the bool returned and find's out-parameter.
Call(op, key, val, found, expired, r) ==
    [op |-> op, key |-> key, val |-> val, found |-> found, expired |-> expired,
     ret |-> r.ret, result |-> r.result]

\* SeqRange(s): the elements of a sequence.
SeqRange(s) == {s[i] : i \in DOMAIN s}

\* The scenario of the unit tests contains_touch and multi_insert: from the
\* constructed cache, inserts (insert or emplace) of pairwise distinct keys
\* [ins, all_true: every one returned true, t0: the clock at the first],
\* then at most one find/contains that hits [acc], then at most one insert
\* of yet another key [post].  Any other call ends the scenario.
RunInit ==
    [ok |-> TRUE, ins |-> <<>>, all_true |-> TRUE, t0 |-> 0, acc |-> <<>>, post |-> <<>>]

RunOver ==
    [ok |-> FALSE, ins |-> <<>>, all_true |-> FALSE, t0 |-> 0, acc |-> <<>>, post |-> <<>>]

RunStep(op, key, r) ==
    IF ~run.ok \/ run.post # <<>> THEN RunOver
    ELSE IF op \in {"insert", "emplace"} /\ key \notin SeqRange(run.ins)
    THEN IF run.acc = <<>>
         THEN [run EXCEPT !.ins = Append(run.ins, key),
                          !.all_true = run.all_true /\ r.ret,
                          !.t0 = IF run.ins = <<>> THEN now ELSE run.t0]
         ELSE [run EXCEPT !.post = <<key>>,
                          !.all_true = run.all_true /\ r.ret]
    ELSE IF op \in {"find", "contains"} /\ run.acc = <<>> /\ r.ret
    THEN [run EXCEPT !.acc = <<key>>]
    ELSE RunOver

LruCall(op, key, val, r) ==
    /\ cache_type = "lru"
    /\ lru' = r.c
    /\ last' = Call(op, key, val, key \in DOMAIN lru.m_cache, FALSE, r)
    /\ run' = RunStep(op, key, r)
    /\ UNCHANGED <<cache_type, ttl, now, aux>>

LruContains(key) == LruCall("contains", key, NoValue, lru_cache_contains(lru, key))
LruEmplace(key, args) ==
    LruCall("emplace", key, value_type(args), lru_cache_emplace(lru, key, args))
LruErase(key) == LruCall("erase", key, NoValue, lru_cache_erase(lru, key))
LruFind(key) == LruCall("find", key, NoValue, lru_cache_find(lru, key))
LruInsert(key, val) == LruCall("insert", key, val, lru_cache_insert(lru, key, val))
LruUpdate(key, val) == LruCall("update", key, val, lru_cache_update(lru, key, val))

TtlCall(op, key, val, r) ==
    /\ cache_type = "ttl"
    /\ ttl' = r.c
    /\ last' = Call(op, key, val, base_ttl_cache_is_find(ttl, key),
                    base_ttl_cache_is_find(ttl, key)
                        /\ base_ttl_cache_is_expired(ttl, key, now), r)
    /\ run' = RunStep(op, key, r)
    /\ UNCHANGED <<cache_type, lru, now, aux>>

TtlContains(key) == TtlCall("contains", key, NoValue, ttl_cache_contains(ttl, key, now))
TtlEmplace(key, args) ==
    TtlCall("emplace", key, value_type(args), ttl_cache_emplace(ttl, key, args, now))
TtlErase(key) == TtlCall("erase", key, NoValue, ttl_cache_erase(ttl, key))
TtlFind(key) == TtlCall("find", key, NoValue, ttl_cache_find(ttl, key, now))
TtlInsert(key, val) == TtlCall("insert", key, val, ttl_cache_insert(ttl, key, val, now))
TtlUpdate(key, val) == TtlCall("update", key, val, ttl_cache_update(ttl, key, val, now))

\* The steady clock advances between two calls.
Tick ==
    /\ cache_type = "ttl"
    /\ now < MaxNow
    /\ now' = now + 1
    /\ last' = [op |-> "tick", key |-> 0, val |-> NoValue, found |-> FALSE,
                expired |-> FALSE, ret |-> TRUE, result |-> NoValue]
    /\ UNCHANGED <<cache_type, lru, ttl, run, aux>>

\* The program constructs one cache, of either class, with capacity >= 1.
InitCache(type) ==
    /\ cache_type = type
    /\ \E capacity \in 1 .. MaxCapacity :
           /\ lru = lru_cache_ctor(capacity)
           /\ ttl = base_ttl_cache_ctor(MaxTtl, capacity)
    /\ now = 0
    /\ last = [op |-> "ctor", key |-> 0, val |-> NoValue, found |-> FALSE,
               expired |-> FALSE, ret |-> TRUE, result |-> NoValue]
    /\ run = RunInit
    /\ since = [by |-> "ctor", capacity |-> lru.m_capacity, ttl |-> MaxTtl]
    /\ cache = [m_capacity |-> 0, m_shards |-> <<>>]
    /\ thr = <<>>
    /\ built = [capacity |-> 0, shards_count |-> 0]
    /\ order = <<>>
    /\ tally = [trues |-> 0, evicted |-> FALSE, early |-> FALSE,
                seen |-> {}, live |-> FALSE, nodes |-> 0]

Init == \E type \in {"lru", "ttl"} : InitCache(type)

InitLru == InitCache("lru")

NextLru ==
    \/ \E key \in Keys : LruContains(key)
    \/ \E key \in Keys, args \in EmplaceArgs : LruEmplace(key, args)
    \/ \E key \in Keys : LruErase(key)
    \/ \E key \in Keys : LruFind(key)
    \/ \E key \in Keys, val \in Values : LruInsert(key, val)
    \/ \E key \in Keys, val \in Values : LruUpdate(key, val)

NextTtl ==
    \/ \E key \in Keys : TtlContains(key)
    \/ \E key \in Keys, args \in EmplaceArgs : TtlEmplace(key, args)
    \/ \E key \in Keys : TtlErase(key)
    \/ \E key \in Keys : TtlFind(key)
    \/ \E key \in Keys, val \in Values : TtlInsert(key, val)
    \/ \E key \in Keys, val \in Values : TtlUpdate(key, val)
    \/ Tick

Next == NextLru \/ NextTtl

\* Either cache class, every method, the clock.
Spec == Init /\ [][Next]_vars

\* The LRU cache alone.
SpecLru == InitLru /\ [][NextLru]_vars

\* ------------------------------------------------------------------ get
TtlGet(key) == TtlCall("get", key, NoValue, ttl_cache_get(ttl, key, now))

NextGet ==
    \/ \E key \in Keys : TtlErase(key)
    \/ \E key \in Keys : TtlFind(key)
    \/ \E key \in Keys : TtlGet(key)
    \/ \E key \in Keys, val \in Values : TtlInsert(key, val)
    \/ Tick

\* The TTL cache called through find and through get.
SpecGet == InitCache("ttl") /\ [][NextGet]_vars

\* ------------------------------------------------------- clear and reset
\* The times to live a reset is given: a reset can change the time to live.
ResetTtls == {0, 1}

\* What the calls between two resets store.
ResetValues == {"bbbb"}

Emptied(op) ==
    [op |-> op, key |-> 0, val |-> NoValue, found |-> FALSE,
     expired |-> FALSE, ret |-> TRUE, result |-> NoValue]

LruClear ==
    /\ cache_type = "lru"
    /\ lru' = lru_cache_clear(lru)
    /\ last' = Emptied("clear")
    /\ run' = RunInit
    /\ since' = [since EXCEPT !.by = "clear"]
    /\ UNCHANGED <<cache_type, ttl, now, cache, thr, built, order, tally>>

LruReset(new_capacity) ==
    /\ cache_type = "lru"
    /\ lru' = base_lru_cache_reset(lru, new_capacity)
    /\ last' = Emptied("reset")
    /\ run' = RunInit
    /\ since' = [since EXCEPT !.by = "reset", !.capacity = new_capacity]
    /\ UNCHANGED <<cache_type, ttl, now, cache, thr, built, order, tally>>

TtlClear ==
    /\ cache_type = "ttl"
    /\ ttl' = ttl_cache_clear(ttl)
    /\ last' = Emptied("clear")
    /\ run' = RunInit
    /\ since' = [since EXCEPT !.by = "clear"]
    /\ UNCHANGED <<cache_type, lru, now, cache, thr, built, order, tally>>

TtlReset(ttl_msecs, new_capacity) ==
    /\ cache_type = "ttl"
    /\ ttl' = ttl_cache_reset(ttl, ttl_msecs, new_capacity)
    /\ last' = Emptied("reset")
    /\ run' = RunInit
    /\ since' = [by |-> "reset", capacity |-> new_capacity, ttl |-> ttl_msecs]
    /\ UNCHANGED <<cache_type, lru, now, cache, thr, built, order, tally>>

NextReset ==
    \/ \E key \in Keys : LruFind(key)
    \/ \E key \in Keys, val \in ResetValues : LruInsert(key, val)
    \/ LruClear
    \/ \E new_capacity \in 1 .. MaxCapacity : LruReset(new_capacity)
    \/ \E key \in Keys : TtlFind(key)
    \/ \E key \in Keys, val \in ResetValues : TtlInsert(key, val)
    \/ TtlClear
    \/ \E ttl_msecs \in ResetTtls, new_capacity \in 1 .. MaxCapacity :
           TtlReset(ttl_msecs, new_capacity)
    \/ Tick

SpecReset == Init /\ [][NextReset]_vars

\* The TTL cache alone, its time to live set by reset: entries are stored,
\* touched, erased and left to age.
NextExpiry ==
    \/ \E key \in Keys : TtlContains(key)
    \/ \E key \in Keys : TtlErase(key)
    \/ \E key \in Keys : TtlFind(key)
    \/ \E key \in Keys, val \in ResetValues : TtlInsert(key, val)
    \/ \E key \in Keys, val \in ResetValues : TtlUpdate(key, val)
    \/ \E ttl_msecs \in ResetTtls, new_capacity \in 1 .. MaxCapacity :
           TtlReset(ttl_msecs, new_capacity)
    \/ Tick

SpecExpiry == InitCache("ttl") /\ [][NextExpiry]_vars

\* ---------------------------------- thread_safe_lru_cache, thread_safe_ttl_cache
Threads == {1, 2}

ShardedKeys == 0 .. MaxShardedKey

\* The threads of the tests store the key as the value.
KeyValue(key) == ToString(key)

\* std::hash<size_t>: the identity.
hasher(key) == key

\* Variant: reserve constructs the cache anew, as reset does.
lru_cache_reserve_anew(c, new_capacity) == lru_cache_ctor(new_capacity)

\* lru_cache::reserve: the capacity changes, the contents stay.
lru_cache_reserve(c, new_capacity) == [c EXCEPT !.m_capacity = new_capacity]

\* The capacity of shard i (counted from 0) of shards_count.
shard_capacity(i, capacity, shards_count) ==
    IF i # 0
    THEN capacity \div shards_count
    ELSE (capacity \div shards_count) + (capacity % shards_count)

shard_type(ttl_msecs, capacity) ==
    IF cache_type = "lru" THEN lru_cache_ctor(capacity)
                          ELSE base_ttl_cache_ctor(ttl_msecs, capacity)

\* Variant: as many shards as asked for, whatever the capacity.
thread_safe_cache_ctor_unclamped(ttl_msecs, capacity, shards_count) ==
    [m_capacity |-> capacity,
     m_shards |-> [i \in 1 .. shards_count |->
                      [first |-> shard_type(ttl_msecs,
                                            shard_capacity(i - 1, capacity, shards_count)),
                       second |-> FALSE]]]

thread_safe_cache_ctor(ttl_msecs, capacity, shards_count) ==
    LET n == IF capacity > shards_count THEN shards_count ELSE capacity
    IN  [m_capacity |-> capacity,
         m_shards |-> [i \in 1 .. n |->
                          [first |-> shard_type(ttl_msecs,
                                                shard_capacity(i - 1, capacity, n)),
                           second |-> FALSE]]]

thread_safe_cache_capacity(c) == c.m_capacity

thread_safe_cache_shards_size(c) == Len(c.m_shards)

\* Variant: the hash loses its lowest bit before the modulo.
get_shard_shifted(c, key) == ((hasher(key) \div 2) % Len(c.m_shards)) + 1

\* get_shard: the index in m_shards, which TLA+ counts from 1.
get_shard(c, key) == (hasher(key) % Len(c.m_shards)) + 1

\* Variant: lock returns whatever exchange(true) has read.
spinlock_lock_through(m_lock) == TRUE

\* spinlock::lock returns once exchange(true) has read false.
spinlock_lock(m_lock) == ~m_lock

\* Variant: unlock leaves m_lock as it is.
spinlock_unlock_kept(m_lock) == m_lock

\* spinlock::unlock: store(false).
spinlock_unlock(m_lock) == FALSE

\* The engine's method a per-key call of the sharded cache hands to wrapper.
shard_call(c, op, key, val, clock) ==
    IF cache_type = "lru"
    THEN CASE op = "contains" -> lru_cache_contains(c, key)
           [] op = "erase" -> lru_cache_erase(c, key)
           [] op = "find" -> lru_cache_find(c, key)
           [] op = "insert" -> lru_cache_insert(c, key, val)
           [] op = "update" -> lru_cache_update(c, key, val)
    ELSE CASE op = "contains" -> ttl_cache_contains(c, key, clock)
           [] op = "erase" -> ttl_cache_erase(c, key)
           [] op = "find" -> ttl_cache_find(c, key, clock)
           [] op = "insert" -> ttl_cache_insert(c, key, val, clock)
           [] op = "update" -> ttl_cache_update(c, key, val, clock)

shard_keys(c) == IF cache_type = "lru" THEN DOMAIN c.m_cache ELSE DOMAIN c.m_hash_tbl

shard_list(c) == IF cache_type = "lru" THEN c.m_lru_list ELSE c.m_ttl_list

shard_size(c) == IF cache_type = "lru" THEN lru_cache_size(c) ELSE ttl_cache_size(c)

shard_empty(c) == IF cache_type = "lru" THEN lru_cache_empty(c) ELSE ttl_cache_empty(c)

shard_clear(c) == IF cache_type = "lru" THEN lru_cache_clear(c) ELSE ttl_cache_clear(c)

shard_value(c, key) ==
    IF cache_type = "lru" THEN c.m_cache[key] ELSE base_ttl_cache_load(c, key)

shard_cap(c) ==
    IF cache_type = "lru" THEN lru_cache_capacity(c) ELSE ttl_cache_capacity(c)

\* reserve of the sharded LRU cache, reset of the sharded TTL cache: what
\* the loop hands to wrapper for one shard.
shard_resize(c, ttl_msecs, capacity) ==
    IF cache_type = "lru" THEN lru_cache_reserve(c, capacity)
                          ELSE ttl_cache_reset(c, ttl_msecs, capacity)

\* Variant: size() returns the size of the shard read last.
size_accumulate_last(s, sh) == shard_size(sh)

\* size: s += wrapper(sh, &_shard_type::size).
size_accumulate(s, sh) == s + shard_size(sh)

\* ------------------------------------------------- calls of the sharded cache
\* A thread is idle, or spins in spinlock::lock for shard i [pc = "lock"], or
\* runs the engine's method inside wrapper [pc = "held"], or is about to
\* assign m_capacity at the end of reserve [pc = "store"].
IdleThread(left) ==
    [pc |-> "idle", op |-> "", key |-> 0, val |-> NoValue, i |-> 0, acc |-> 0,
     cap |-> 0, ttl |-> 0, holds |-> {}, left |-> left]

\* The call that returned last, with its results.
Returned(t, op, key, val, i, ret, result, n) ==
    [t |-> t, op |-> op, key |-> key, val |-> val, i |-> i, ret |-> ret,
     result |-> result, n |-> n]

KeyOps == {"contains", "erase", "find", "insert", "update"}

AllKeys(c) == UNION {shard_keys(c.m_shards[i].first) : i \in DOMAIN c.m_shards}

\* Two threads inside wrapper on one shard run the engine unsynchronised:
\* a data race, after which the call may return anything.
Racing(t) == \E u \in Threads \ {t} : thr[t].i \in thr[u].holds

Outcomes(t, r) ==
    IF Racing(t)
    THEN {[c |-> r.c, ret |-> b, result |-> v] :
              b \in BOOLEAN, v \in {KeyValue(k) : k \in ShardedKeys}}
    ELSE {r}

RECURSIVE Keep(_, _)
\* Keep(ord, keys): the sequence without the elements outside keys.
Keep(ord, keys) ==
    IF ord = <<>> THEN <<>>
    ELSE (IF Head(ord) \in keys THEN <<Head(ord)>> ELSE <<>>) \o Keep(Tail(ord), keys)

\* The keys in the order of their last touch, after a call on key.
Touched(ord, stored, op, key, ret) ==
    LET touched == op \in {"insert", "update"} \/ (op \in {"contains", "find"} /\ ret)
    IN  Keep(ord, {k \in stored : ~(k = key /\ touched)})
            \o (IF touched THEN <<key>> ELSE <<>>)

ShCallKey(t, op, key, val) ==
    /\ thr[t].pc = "idle"
    /\ thr[t].left > 0
    /\ thr' = [thr EXCEPT ![t] = [thr[t] EXCEPT !.pc = "lock", !.op = op,
                                                !.key = key, !.val = val,
                                                !.i = get_shard(cache, key),
                                                !.left = thr[t].left - 1]]
    /\ UNCHANGED <<cache_type, lru, ttl, now, last, run, since,
                   cache, built, order, tally>>

\* clear, empty, size, reserve and reset visit the shards in order; reset
\* assigns m_capacity before the loop.
ShCallAll(t, op, ttl_msecs, new_capacity) ==
    /\ thr[t].pc = "idle"
    /\ thr[t].left > 0
    /\ op = "reserve" => cache_type = "lru"
    /\ op = "reset" => cache_type = "ttl"
    /\ thr' = [thr EXCEPT ![t] = [thr[t] EXCEPT !.pc = "lock", !.op = op, !.i = 1,
                                                !.cap = new_capacity,
                                                !.ttl = ttl_msecs,
                                                !.left = thr[t].left - 1]]
    /\ cache' = IF op = "reset" THEN [cache EXCEPT !.m_capacity = new_capacity]
                                ELSE cache
    /\ UNCHANGED <<cache_type, lru, ttl, now, last, run, since,
                   built, order, tally>>

ShLock(t) ==
    /\ thr[t].pc = "lock"
    /\ spinlock_lock(cache.m_shards[thr[t].i].second)
    /\ cache' = [cache EXCEPT !.m_shards[thr[t].i].second = TRUE]
    /\ thr' = [thr EXCEPT ![t] = [thr[t] EXCEPT !.pc = "held",
                                                !.holds = thr[t].holds \cup {thr[t].i}]]
    /\ UNCHANGED <<cache_type, lru, ttl, now, last, run, since,
                   built, order, tally>>

\* wrapper for a per-key call: the engine's method, then the lock's release.
ShExecKey(t) ==
    /\ thr[t].pc = "held"
    /\ thr[t].op \in KeyOps
    /\ LET i == thr[t].i
           sh == cache.m_shards[i].first
           r == shard_call(sh, thr[t].op, thr[t].key, thr[t].val, now)
       IN  \E out \in Outcomes(t, r) :
               /\ cache' = [cache EXCEPT !.m_shards[i] =
                                [first |-> out.c,
                                 second |-> spinlock_unlock(cache.m_shards[i].second)]]
               /\ last' = Returned(t, thr[t].op, thr[t].key, thr[t].val, i,
                                   out.ret, out.result, 0)
    /\ thr' = [thr EXCEPT ![t] = IdleThread(thr[t].left)]
    /\ UNCHANGED <<cache_type, lru, ttl, now, run, since, built>>

\* wrapper for one shard of a call on the whole cache.
ShExecAll(t) ==
    /\ thr[t].pc = "held"
    /\ thr[t].op \notin KeyOps
    /\ LET i == thr[t].i
           op == thr[t].op
           n == Len(cache.m_shards)
           sh == cache.m_shards[i].first
           first == CASE op = "clear" -> shard_clear(sh)
                      [] op \in {"reserve", "reset"} ->
                            shard_resize(sh, thr[t].ttl,
                                         shard_capacity(i - 1, thr[t].cap, n))
                      [] OTHER -> sh
           acc == IF op = "size" THEN size_accumulate(thr[t].acc, sh) ELSE thr[t].acc
           stop == op = "empty" /\ ~shard_empty(sh)
           more == i < n /\ ~stop
           holds == thr[t].holds \ {i}
       IN  /\ cache' = [cache EXCEPT !.m_shards[i] =
                            [first |-> first,
                             second |-> spinlock_unlock(cache.m_shards[i].second)]]
           /\ thr' = [thr EXCEPT ![t] =
                         IF more
                         THEN [thr[t] EXCEPT !.pc = "lock", !.i = i + 1,
                                             !.acc = acc, !.holds = holds]
                         ELSE IF op = "reserve"
                         THEN [thr[t] EXCEPT !.pc = "store", !.i = 0, !.holds = holds]
                         ELSE IdleThread(thr[t].left)]
           /\ last' = IF more \/ op = "reserve" THEN last
                      ELSE Returned(t, op, 0, NoValue, 0, ~stop, NoValue, acc)
    /\ UNCHANGED <<cache_type, lru, ttl, now, run, since, built>>

RECURSIVE SumSizes(_)
\* size(): the sum of the sizes of the shards.
SumSizes(shards) ==
    IF shards = <<>> THEN 0
    ELSE shard_size(Head(shards).first) + SumSizes(Tail(shards))

\* What a test counts over the step in which thread t leaves wrapper: the
\* keys by their last touch, the inserts that returned true, whether an
\* insert evicted [evicted], and whether one evicted below capacity() a key
\* other than the least recently touched of the whole cache [early].
Tallied(t) ==
    LET gone == IF thr[t].op = "insert" THEN AllKeys(cache) \ AllKeys(cache') ELSE {}
    IN  /\ order' = Touched(order, AllKeys(cache'), thr[t].op, thr[t].key, last'.ret)
        /\ tally' = [tally EXCEPT
                         !.trues = tally.trues
                                     + (IF thr[t].op = "insert" /\ last'.ret THEN 1 ELSE 0),
                         !.evicted = tally.evicted \/ gone # {},
                         !.early = tally.early
                                   \/ (/\ gone # {}
                                       /\ SumSizes(cache.m_shards)
                                              < thread_safe_cache_capacity(cache)
                                       /\ Head(order) \notin gone)]

\* A test that counts nothing.
Untallied == UNCHANGED <<order, tally>>

\* reserve assigns m_capacity after the loop.
ShStore(t) ==
    /\ thr[t].pc = "store"
    /\ cache' = [cache EXCEPT !.m_capacity = thr[t].cap]
    /\ thr' = [thr EXCEPT ![t] = IdleThread(thr[t].left)]
    /\ last' = Returned(t, "reserve", 0, NoValue, 0, TRUE, NoValue, 0)
    /\ UNCHANGED <<cache_type, lru, ttl, now, run, since, built, order, tally>>

InitShardedUpTo(type, max_capacity) ==
    /\ cache_type = type
    /\ \E capacity \in 1 .. max_capacity, shards_count \in 1 .. MaxShards :
           /\ cache = thread_safe_cache_ctor(MaxTtl, capacity, shards_count)
           /\ built = [capacity |-> capacity, shards_count |-> shards_count]
    /\ thr = [t \in Threads |-> IdleThread(MaxCalls)]
    /\ order = <<>>
    /\ tally = [trues |-> 0, evicted |-> FALSE, early |-> FALSE,
                seen |-> {}, live |-> FALSE, nodes |-> 0]
    /\ lru = lru_cache_ctor(1)
    /\ ttl = base_ttl_cache_ctor(MaxTtl, 1)
    /\ now = 0
    /\ last = Returned(0, "ctor", 0, NoValue, 0, TRUE, NoValue, 0)
    /\ run = RunInit
    /\ since = [by |-> "ctor", capacity |-> 1, ttl |-> MaxTtl]

InitSharded(type) == InitShardedUpTo(type, MaxShardedCapacity)

\* One thread calls the sharded cache.
NextShards ==
    \/ \E op \in {"contains", "erase", "find"}, key \in ShardedKeys :
           ShCallKey(1, op, key, NoValue)
    \/ \E op \in {"insert", "update"}, key \in ShardedKeys :
           ShCallKey(1, op, key, KeyValue(key))
    \/ \E op \in {"clear", "empty", "size"} : ShCallAll(1, op, 0, 0)
    \/ \E new_capacity \in Len(cache.m_shards) .. MaxShardedCapacity :
           \/ ShCallAll(1, "reserve", 0, new_capacity)
           \/ \E ttl_msecs \in ResetTtls : ShCallAll(1, "reset", ttl_msecs, new_capacity)
    \/ ShLock(1)
    \/ ShExecKey(1) /\ Untallied
    \/ ShExecAll(1) /\ Untallied
    \/ ShStore(1)

SpecShards == (\E type \in {"lru", "ttl"} : InitSharded(type)) /\ [][NextShards]_vars

\* Two threads call reserve (LRU) or reset (TTL) on the sharded cache.
NextResize ==
    \E t \in Threads :
        \/ \E new_capacity \in Len(cache.m_shards) .. MaxShardedCapacity :
               \/ ShCallAll(t, "reserve", 0, new_capacity)
               \/ \E ttl_msecs \in ResetTtls :
                      ShCallAll(t, "reset", ttl_msecs, new_capacity)
        \/ ShLock(t)
        \/ ShExecAll(t) /\ Untallied
        \/ ShStore(t)

SpecResize == (\E type \in {"lru", "ttl"} : InitSharded(type)) /\ [][NextResize]_vars

\* reserve of the LRU engine; the record of the call keeps new_capacity in
\* its key field.
LruReserve(new_capacity) ==
    /\ cache_type = "lru"
    /\ lru' = lru_cache_reserve(lru, new_capacity)
    /\ last' = [Emptied("reserve") EXCEPT !.key = new_capacity]
    /\ run' = RunOver
    /\ UNCHANGED <<cache_type, ttl, now, aux>>

\* reserve called on the LRU engine [thr = <<>>] and, from one thread, on
\* the sharded LRU cache, with inserts before and after.
NextReserve ==
    \/ \E key \in Keys, val \in ResetValues : thr = <<>> /\ LruInsert(key, val)
    \/ \E new_capacity \in 1 .. MaxCapacity : thr = <<>> /\ LruReserve(new_capacity)
    \/ \E key \in ShardedKeys :
           thr # <<>> /\ ShCallKey(1, "insert", key, KeyValue(key))
    \/ \E new_capacity \in Len(cache.m_shards) .. MaxShardedCapacity :
           thr # <<>> /\ ShCallAll(1, "reserve", 0, new_capacity)
    \/ thr # <<>> /\ ShLock(1)
    \/ thr # <<>> /\ ShExecKey(1) /\ Untallied
    \/ thr # <<>> /\ ShExecAll(1) /\ Untallied
    \/ thr # <<>> /\ ShStore(1)

SpecReserve == (InitLru \/ InitSharded("lru")) /\ [][NextReserve]_vars

\* The keys and the capacity of the tests with contending threads.
MaxHitKey == 1
MaxHitCapacity == 2
HitKeys == 0 .. MaxHitKey

InitHit(type) == InitShardedUpTo(type, MaxHitCapacity)

\* The threads of the hit test: each looks a key up or inserts it.
NextHit ==
    \E t \in Threads :
        \/ \E key \in HitKeys : ShCallKey(t, "find", key, NoValue)
        \/ \E key \in HitKeys : ShCallKey(t, "insert", key, KeyValue(key))
        \/ ShLock(t)
        \/ ShExecKey(t) /\ Untallied

SpecHit == (\E type \in {"lru", "ttl"} : InitHit(type)) /\ [][NextHit]_vars

\* Threads that insert, and call the methods that visit every shard.
NextWhole ==
    \E t \in Threads :
        \/ ShCallKey(t, "insert", 0, KeyValue(0))
        \/ \E op \in {"clear", "empty", "size"} : ShCallAll(t, op, 0, 0)
        \/ ShCallAll(t, "reserve", 0, MaxHitCapacity)
        \/ ShCallAll(t, "reset", 0, MaxHitCapacity)
        \/ ShLock(t)
        \/ ShExecKey(t) /\ Untallied
        \/ ShExecAll(t) /\ Untallied
        \/ ShStore(t)

SpecWhole == (\E type \in {"lru", "ttl"} : InitHit(type)) /\ [][NextWhole]_vars

\* Threads that only insert, into the sharded LRU cache.
NextInserts ==
    \E t \in Threads :
        \/ \E key \in ShardedKeys : ShCallKey(t, "insert", key, KeyValue(key))
        \/ ShLock(t)
        \/ ShExecKey(t) /\ Tallied(t)

SpecInserts == InitSharded("lru") /\ [][NextInserts]_vars

\* What is seen of the whole cache while thread 1 is inside size() or
\* empty(), from the call to the return: the element counts the cache has
\* had [seen]; live says the call has not returned yet.
Sized(t) ==
    LET sizing == thr[1].op \in {"size", "empty"} /\ thr[1].pc \in {"lock", "held"}
        seen == IF tally.live THEN tally.seen ELSE {}
    IN  /\ order' = order
        /\ tally' = IF sizing
                    THEN [tally EXCEPT
                             !.seen = seen \cup {SumSizes(cache.m_shards),
                                                 SumSizes(cache'.m_shards)},
                             !.live = thr'[1].pc # "idle"]
                    ELSE tally

\* Thread 1 inserts and asks for size() and empty() while thread 2 inserts
\* and erases.
NextSize ==
    \/ \E key \in HitKeys : ShCallKey(1, "insert", key, KeyValue(key))
    \/ \E op \in {"size", "empty"} : ShCallAll(1, op, 0, 0)
    \/ \E key \in HitKeys : ShCallKey(2, "insert", key, KeyValue(key))
    \/ \E key \in HitKeys : ShCallKey(2, "erase", key, NoValue)
    \/ \E t \in Threads : ShLock(t)
    \/ \E t \in Threads : ShExecKey(t) /\ Sized(t)
    \/ ShExecAll(1) /\ Sized(1)

SpecSize == InitHit("ttl") /\ [][NextSize]_vars

\* ------------------------------------------------------- nodes on the heap
\* insert constructs a node (std::make_unique) when the key is not stored
\* and the cache is not full; a full cache reuses the node it extracts.
base_ttl_cache_allocates(c, key) ==
    ~base_ttl_cache_is_find(c, key) /\ base_ttl_cache_size(c) < c.m_capacity

\* The nodes a call deletes: erase, clear and extract_node unlink the node
\* from the two containers (normal_link hooks, no disposer), insert_node
\* releases the unique_ptr, and the destructor is empty.
base_ttl_cache_deletes(op) == 0

\* insert, with the nodes on the heap counted in tally.nodes; the count is
\* kept within MaxCapacity + 1.
TtlInsertNode(key, val) ==
    LET r == ttl_cache_insert(ttl, key, val, now)
        made == IF base_ttl_cache_allocates(ttl, key) THEN 1 ELSE 0
    IN  /\ cache_type = "ttl"
        /\ tally.nodes + made <= MaxCapacity + 1
        /\ ttl' = r.c
        /\ last' = Call("insert", key, val, base_ttl_cache_is_find(ttl, key),
                        base_ttl_cache_is_find(ttl, key)
                            /\ base_ttl_cache_is_expired(ttl, key, now), r)
        /\ run' = RunStep("insert", key, r)
        /\ tally' = [tally EXCEPT !.nodes = tally.nodes + made
                                              - base_ttl_cache_deletes("insert")]
        /\ UNCHANGED <<cache_type, lru, now, since, cache, thr, built, order>>

\* The TTL cache with its nodes counted: erase, find, clear and reset leave
\* the count as it is.
NextNodes ==
    \/ \E key \in Keys : TtlErase(key)
    \/ \E key \in Keys : TtlFind(key)
    \/ \E key \in Keys, val \in ResetValues : TtlInsertNode(key, val)
    \/ TtlClear
    \/ \E new_capacity \in 1 .. MaxCapacity : TtlReset(MaxTtl, new_capacity)
    \/ Tick

SpecNodes == InitCache("ttl") /\ [][NextNodes]_vars

\* ------------------------------------------------------ a call that throws
\* Where insert_to_cache can throw std::bad_alloc: in m_lru_list.emplace
\* (the path of a cache that is not full) and in the construction of the
\* value or m_cache.emplace (either path).
ThrowPoints == {"m_lru_list.emplace", "m_cache.emplace"}

\* insert_to_cache left by an exception at the point at: what the statements
\* before that point have done.  There is no try block and nothing is undone.
lru_cache_insert_to_cache_throws(c, key, at) ==
    IF c.m_size >= c.m_capacity
    THEN [c EXCEPT !.m_cache = map_erase(c.m_cache, Head(c.m_lru_list)),
                   !.m_lru_list = <<key>> \o Tail(c.m_lru_list)]
    ELSE IF at = "m_lru_list.emplace" THEN c
    ELSE [c EXCEPT !.m_lru_list = Append(c.m_lru_list, key)]

\* insert(key, val) of a key that is not stored ends in an exception, which
\* the caller catches.
LruInsertThrows(key, val, at) ==
    /\ cache_type = "lru"
    /\ key \notin DOMAIN lru.m_cache
    /\ at = "m_lru_list.emplace" => lru.m_size < lru.m_capacity
    /\ lru' = lru_cache_insert_to_cache_throws(lru, key, at)
    /\ last' = Call("throw", key, val, FALSE, FALSE, [ret |-> FALSE, result |-> at])
    /\ run' = RunOver
    /\ UNCHANGED <<cache_type, ttl, now, aux>>

\* Calls of the LRU cache until one of them throws.
NextThrow ==
    \/ \E key \in Keys : last.op # "throw" /\ LruErase(key)
    \/ \E key \in Keys : last.op # "throw" /\ LruFind(key)
    \/ \E key \in Keys, val \in Values : last.op # "throw" /\ LruInsert(key, val)
    \/ \E key \in Keys, val \in Values, at \in ThrowPoints :
           last.op # "throw" /\ LruInsertThrows(key, val, at)

SpecThrow == InitLru /\ [][NextThrow]_vars

\* ------------------------------------------------- shards of capacity zero
\* Thread t is inside wrapper with an insert of a key its shard does not
\* hold, the shard is full [size() >= capacity()] and its list is empty:
\* insert takes the eviction path, extract_node(m_ttl_list.begin()) or
\* m_lru_list.front() of an empty list.
EvictsEmpty(t) ==
    /\ thr[t].pc = "held"
    /\ thr[t].op = "insert"
    /\ LET sh == cache.m_shards[thr[t].i].first
       IN  /\ thr[t].key \notin shard_keys(sh)
           /\ shard_list(sh) = <<>>
           /\ shard_size(sh) >= shard_cap(sh)

\* The behaviour of that insert is undefined: the process aborts inside
\* wrapper, the lock held, or the call returns anything.
ShExecUndefined(t) ==
    /\ EvictsEmpty(t)
    /\ \/ /\ thr' = [thr EXCEPT ![t] = [thr[t] EXCEPT !.pc = "aborted"]]
          /\ last' = Returned(t, "abort", thr[t].key, thr[t].val, thr[t].i,
                              FALSE, NoValue, 0)
          /\ UNCHANGED cache
       \/ \E ret \in BOOLEAN :
             /\ thr' = [thr EXCEPT ![t] = IdleThread(thr[t].left)]
             /\ last' = Returned(t, "insert", thr[t].key, thr[t].val, thr[t].i,
                                 ret, NoValue, 0)
             /\ cache' = [cache EXCEPT !.m_shards[thr[t].i].second =
                              spinlock_unlock(cache.m_shards[thr[t].i].second)]
    /\ UNCHANGED <<cache_type, lru, ttl, now, run, since, built, order, tally>>

\* One thread inserts, and calls reserve (LRU) or reset (TTL) with any
\* capacity from 1 on.
NextSmall ==
    \/ \E key \in ShardedKeys : ShCallKey(1, "insert", key, KeyValue(key))
    \/ \E new_capacity \in 1 .. MaxShardedCapacity :
           ShCallAll(1, "reserve", 0, new_capacity)
    \/ \E new_capacity \in 1 .. MaxShardedCapacity :
           ShCallAll(1, "reset", MaxTtl, new_capacity)
    \/ ShLock(1)
    \/ ~EvictsEmpty(1) /\ ShExecKey(1) /\ Untallied
    \/ ShExecUndefined(1)
    \/ ShExecAll(1) /\ Untallied
    \/ ShStore(1)

SpecSmall == (\E type \in {"lru", "ttl"} : InitSharded(type)) /\ [][NextSmall]_vars

\* ------------------------------------------------- threads that never stop
\* A thread of the performance test calls the cache in a loop for as long
\* as the test runs: the call costs nothing of thr[t].left.
ShLoopKey(t, op, key, val) ==
    /\ thr[t].pc = "idle"
    /\ thr' = [thr EXCEPT ![t] = [thr[t] EXCEPT !.pc = "lock", !.op = op,
                                                !.key = key, !.val = val,
                                                !.i = get_shard(cache, key)]]
    /\ UNCHANGED <<cache_type, lru, ttl, now, last, run, since,
                   cache, built, order, tally>>

\* spinlock::lock, the exchange that reads true: the thread enters the
\* inner loop [pc = "spin"].  ShLock is the exchange that reads false.
ShSpin(t) ==
    /\ thr[t].pc = "lock"
    /\ ~spinlock_lock(cache.m_shards[thr[t].i].second)
    /\ thr' = [thr EXCEPT ![t] = [thr[t] EXCEPT !.pc = "spin"]]
    /\ UNCHANGED <<cache_type, lru, ttl, now, last, run, since,
                   cache, built, order, tally>>

\* The inner loop's load that reads false: back to the exchange.  A load
\* that reads true changes nothing.
ShLoad(t) ==
    /\ thr[t].pc = "spin"
    /\ ~cache.m_shards[thr[t].i].second
    /\ thr' = [thr EXCEPT ![t] = [thr[t] EXCEPT !.pc = "lock"]]
    /\ UNCHANGED <<cache_type, lru, ttl, now, last, run, since,
                   cache, built, order, tally>>

\* What thread t does next inside a call.
ThreadStep(t) ==
    \/ ShLock(t)
    \/ ShSpin(t)
    \/ ShLoad(t)
    \/ ShExecKey(t) /\ Untallied

NextFair ==
    \E t \in Threads :
        \/ \E key \in HitKeys : ShLoopKey(t, "insert", key, KeyValue(key))
        \/ ShLock(t)
        \/ ShSpin(t)
        \/ ShLoad(t)
        \/ ShExecKey(t) /\ Untallied

\* Every thread inside a call is scheduled again and again.
SpecFair ==
    /\ InitHit("lru")
    /\ [][NextFair]_vars
    /\ \A t \in Threads : WF_vars(ThreadStep(t))

\* ------------------------------------------------------- the cache in use
\* The constructed cache seen through its public and protected interface.
CacheSize == IF cache_type = "lru" THEN lru_cache_size(lru) ELSE ttl_cache_size(ttl)

CacheCapacity ==
    IF cache_type = "lru" THEN lru_cache_capacity(lru) ELSE ttl_cache_capacity(ttl)

\* The keys stored in the index.
CacheKeys == IF cache_type = "lru" THEN DOMAIN lru.m_cache ELSE DOMAIN ttl.m_hash_tbl

\* The recency list, least recently used first.
CacheList == IF cache_type = "lru" THEN lru.m_lru_list ELSE ttl.m_ttl_list

\* The value stored under a key of the index, in the given objects.
StoredValue(l, t, key) ==
    IF cache_type = "lru" THEN l.m_cache[key] ELSE base_ttl_cache_load(t, key)

CacheValue(key) == StoredValue(lru, ttl, key)

\* What contains(key) would answer now.
CacheContains(key) ==
    IF cache_type = "lru"
    THEN lru_cache_contains(lru, key).ret
    ELSE ttl_cache_contains(ttl, key, now).ret

\* ------------------------------------------------------------------ claims

(* C1: in a single-shard cache of either engine, built with capacity >= 1,  *)
(* size() never exceeds capacity(), whatever sequence of insert, emplace,   *)
(* update, find, contains and erase is applied.                             *)
C1_SizeWithinCapacity ==
    /\ lru_cache_capacity(lru) >= 1 /\ ttl_cache_capacity(ttl) >= 1
    /\ lru_cache_size(lru) <= lru_cache_capacity(lru)
    /\ ttl_cache_size(ttl) <= ttl_cache_capacity(ttl)

\* More distinct keys were inserted than fit, and the cache is exactly full.
C1_Witness ==
    /\ run.ok /\ Len(run.ins) > CacheCapacity
    /\ CacheSize = CacheCapacity

(* C2: LRU engine, size() = capacity() >= 1: an insert, emplace or update    *)
(* of a key that is not stored removes exactly one key, the head of the     *)
(* recency list, keeps every other key with its value, leaves size()        *)
(* unchanged and puts the new key, with its value, at the most-recently-    *)
(* used end of the list.                                                    *)
C2_FullInsertEvictsHead ==
    [][ ( /\ cache_type = "lru"
          /\ last'.op \in {"insert", "emplace", "update"}
          /\ last'.key \notin DOMAIN lru.m_cache
          /\ lru.m_capacity >= 1
          /\ lru_cache_size(lru) = lru_cache_capacity(lru) )
        => LET head == Head(lru.m_lru_list)
               kept == DOMAIN lru.m_cache \ {head}
           IN  /\ DOMAIN lru.m_cache \ DOMAIN lru'.m_cache = {head}
               /\ DOMAIN lru'.m_cache = kept \cup {last'.key}
               /\ \A k \in kept : lru'.m_cache[k] = lru.m_cache[k]
               /\ lru'.m_cache[last'.key] = last'.val
               /\ lru_cache_size(lru') = lru_cache_size(lru)
               /\ lru'.m_lru_list = Tail(lru.m_lru_list) \o <<last'.key>>
      ]_vars

\* A run of inserts of distinct keys into an LRU cache of capacity 2 has just
\* overflowed: its last insert found the cache full and took the head's place.
C2_Witness ==
    /\ cache_type = "lru" /\ lru.m_capacity = 2
    /\ run.ok /\ run.acc = <<>> /\ Len(run.ins) = 3
    /\ last.op = "insert" /\ ~last.found
    /\ lru.m_lru_list = <<run.ins[2], run.ins[3]>>

(* C3: capacity >= 2, either engine.  When find or contains has just hit a   *)
(* stored key k, the next call, an insert (insert, emplace or update) of a  *)
(* key that is not stored into the full cache, does not evict k: it evicts  *)
(* the head of the recency list, the least recently touched of the other    *)
(* keys, k being at the back.  In particular, after filling an empty cache  *)
(* with capacity() distinct keys, accessing the first of them and inserting *)
(* one more key, the first key is stored and the second is not; contains    *)
(* answers the same as long as no entry has outlived the time to live.      *)
C3_TouchedKeySurvives ==
    /\ [][ ( /\ last.op \in {"find", "contains"} /\ last.ret
              /\ last'.op \in {"insert", "emplace", "update"}
              /\ last'.key \notin CacheKeys
              /\ CacheCapacity >= 2
              /\ CacheSize = CacheCapacity )
            => /\ CacheList[Len(CacheList)] = last.key
               /\ Head(CacheList) # last.key
               /\ CacheKeys \ CacheKeys' = {Head(CacheList)}
               /\ last.key \in CacheKeys'
               /\ StoredValue(lru', ttl', last.key) = CacheValue(last.key)
          ]_vars
    /\ [] ( ( /\ run.ok
               /\ CacheCapacity >= 2
               /\ Len(run.ins) = CacheCapacity
               /\ run.acc = <<run.ins[1]>>
               /\ run.post # <<>> )
             => /\ run.ins[1] \in CacheKeys
                /\ run.ins[2] \notin CacheKeys
                /\ (now - run.t0 <= ttl.m_time_to_live
                       => CacheContains(run.ins[1]) /\ ~CacheContains(run.ins[2])) )

\* The test's scenario: keys 0 and 1 fill a cache of capacity 2, key 0 is
\* accessed, key 2 is inserted.
C3_Witness ==
    /\ CacheCapacity = 2
    /\ run.ok /\ run.ins = <<0, 1>> /\ run.acc = <<0>> /\ run.post = <<2>>
    /\ last.op = "insert" /\ last.key = 2 /\ last.ret

(* C4: capacity c >= 1, either engine.  After n > c pairwise distinct keys   *)
(* have been inserted into the empty cache and nothing else was called,     *)
(* exactly the last c keys inserted are stored, every insert returned true  *)
(* and size() = c; as long as no entry has outlived the time to live (TTL)  *)
(* contains answers true for exactly those c keys.                          *)
C4_LastKeysRemain ==
    ( /\ run.ok /\ run.acc = <<>>
      /\ CacheCapacity >= 1
      /\ Len(run.ins) > CacheCapacity )
    => LET n == Len(run.ins)
           c == CacheCapacity
           recent == {run.ins[i] : i \in (n - c + 1) .. n}
       IN  /\ CacheKeys = recent
           /\ Cardinality(recent) = c
           /\ run.all_true
           /\ CacheSize = c
           /\ (now - run.t0 <= ttl.m_time_to_live
                  => \A key \in Keys : CacheContains(key) <=> key \in recent)

\* Three distinct keys went into a TTL cache of capacity 2 within the time
\* to live; the first one is gone.
C4_Witness ==
    /\ cache_type = "ttl" /\ CacheCapacity = 2
    /\ run.ok /\ run.acc = <<>> /\ Len(run.ins) = 3
    /\ now - run.t0 <= ttl.m_time_to_live
    /\ ~CacheContains(run.ins[1]) /\ CacheContains(run.ins[3])

(* C5 as stated: LRU engine, any reachable state, any key k and value v:     *)
(* insert(k, v) followed immediately by find(k) returns (true, v).          *)
C5_AsStated ==
    [][ ( /\ cache_type = "lru"
          /\ last.op = "insert"
          /\ last'.op = "find" /\ last'.key = last.key )
        => last'.ret /\ last'.result = last.val
      ]_vars

(* C5, amended: LRU engine, any reachable state, any key k and value v:     *)
(* insert(k, v) followed immediately by find(k) returns true, with v when   *)
(* k was not stored before the insert (the insert returned true) and with   *)
(* the value already stored, which insert leaves in place while returning   *)
(* false, when k was stored.                                                *)
C5_InsertThenFind ==
    [][ /\ ( /\ cache_type = "lru"
              /\ last'.op = "insert"
              /\ last'.key \in DOMAIN lru.m_cache )
            => /\ ~last'.ret
               /\ lru'.m_cache[last'.key] = lru.m_cache[last'.key]
        /\ ( /\ cache_type = "lru"
              /\ last.op = "insert"
              /\ last'.op = "find" /\ last'.key = last.key )
            => /\ last'.ret
               /\ last'.result = lru.m_cache[last.key]
               /\ (last.ret => last'.result = last.val)
               /\ (last.ret <=> ~last.found)
      ]_vars

\* insert(k, v) has just stored k in a full cache, and find(k), called now,
\* returns (true, v).
C5_Witness ==
    /\ cache_type = "lru"
    /\ last.op = "insert" /\ last.ret /\ ~last.found
    /\ lru_cache_size(lru) = lru_cache_capacity(lru)
    /\ lru_cache_find(lru, last.key).ret
    /\ lru_cache_find(lru, last.key).result = last.val

(* C6: LRU engine.  update(k, v2) followed immediately by find(k) returns    *)
(* (true, v2).  When k is not stored, update(k, v2) does what insert(k, v2) *)
(* does, the eviction of the head of a full cache included; when k is       *)
(* stored, size() and the set of keys do not change, the other values do    *)
(* not change, k holds v2 and becomes the most recently used.               *)
C6_Update ==
    [][ /\ ( /\ cache_type = "lru"
              /\ last'.op = "update"
              /\ last'.key \notin DOMAIN lru.m_cache )
            => /\ lru' = lru_cache_insert(lru, last'.key, last'.val).c
               /\ lru'.m_cache[last'.key] = last'.val
               /\ lru'.m_lru_list[Len(lru'.m_lru_list)] = last'.key
               /\ IF lru_cache_size(lru) = lru_cache_capacity(lru)
                  THEN /\ DOMAIN lru.m_cache \ DOMAIN lru'.m_cache
                             = {Head(lru.m_lru_list)}
                       /\ lru_cache_size(lru') = lru_cache_size(lru)
                  ELSE /\ DOMAIN lru.m_cache \subseteq DOMAIN lru'.m_cache
                       /\ lru_cache_size(lru') = lru_cache_size(lru) + 1
        /\ ( /\ cache_type = "lru"
              /\ last'.op = "update"
              /\ last'.key \in DOMAIN lru.m_cache )
            => /\ lru_cache_size(lru') = lru_cache_size(lru)
               /\ DOMAIN lru'.m_cache = DOMAIN lru.m_cache
               /\ \A k \in DOMAIN lru.m_cache \ {last'.key} :
                      lru'.m_cache[k] = lru.m_cache[k]
               /\ lru'.m_cache[last'.key] = last'.val
               /\ lru'.m_lru_list
                      = SelectSeq(lru.m_lru_list, LAMBDA k : k # last'.key)
                            \o <<last'.key>>
        /\ ( /\ cache_type = "lru"
              /\ last.op = "update"
              /\ last'.op = "find" /\ last'.key = last.key )
            => last'.ret /\ last'.result = last.val
      ]_vars

\* update(k, v2) has just overwritten a stored key that is not alone in the
\* cache, and find(k), called now, returns (true, v2).
C6_Witness ==
    /\ cache_type = "lru"
    /\ last.op = "update" /\ last.found
    /\ lru_cache_size(lru) = 2
    /\ lru.m_cache[last.key] = last.val
    /\ \E k \in DOMAIN lru.m_cache : lru.m_cache[k] # last.val
    /\ lru_cache_find(lru, last.key).ret
    /\ lru_cache_find(lru, last.key).result = last.val

(* C7: LRU engine.  insert(k, v) on a stored key returns false, overwrites  *)
(* no value, leaves size() and the set of keys as they are and moves k to   *)
(* the most-recently-used end; on a key that is not stored it returns true  *)
(* and stores v under k.                                                    *)
C7_Insert ==
    [][ /\ ( /\ cache_type = "lru"
              /\ last'.op = "insert"
              /\ last'.key \in DOMAIN lru.m_cache )
            => /\ ~last'.ret
               /\ lru'.m_cache = lru.m_cache
               /\ lru_cache_size(lru') = lru_cache_size(lru)
               /\ lru'.m_lru_list
                      = SelectSeq(lru.m_lru_list, LAMBDA k : k # last'.key)
                            \o <<last'.key>>
        /\ ( /\ cache_type = "lru"
              /\ last'.op = "insert"
              /\ last'.key \notin DOMAIN lru.m_cache )
            => /\ last'.ret
               /\ last'.key \in DOMAIN lru'.m_cache
               /\ lru'.m_cache[last'.key] = last'.val
      ]_vars

\* insert(k, v) has just returned false for a stored key of a full cache:
\* k is at the back of the list and still holds a value other than v.
C7_Witness ==
    /\ cache_type = "lru"
    /\ last.op = "insert" /\ last.found /\ ~last.ret
    /\ lru.m_cache[last.key] # last.val
    /\ Len(lru.m_lru_list) = 2
    /\ lru.m_lru_list[2] = last.key
    /\ lru_cache_size(lru) = lru_cache_capacity(lru)

(* C8: either engine.  emplace(k, args...) returns true exactly when k is    *)
(* not stored (TTL: not stored, or stored and expired) and then k holds the *)
(* value constructed from the arguments; when k is stored (TTL: and fresh)  *)
(* it returns false, constructs nothing, changes no value and only moves k  *)
(* to the most-recently-used end.                                           *)
C8_Emplace ==
    [][ last'.op = "emplace"
        => LET absent == \/ last'.key \notin CacheKeys
                         \/ /\ cache_type = "ttl"
                            /\ base_ttl_cache_is_expired(ttl, last'.key, now)
           IN  /\ last'.ret <=> absent
               /\ last'.ret
                    => /\ last'.key \in CacheKeys'
                       /\ StoredValue(lru', ttl', last'.key) = last'.val
                       /\ \E args \in EmplaceArgs : last'.val = value_type(args)
               /\ ~last'.ret
                    => /\ lru'.m_cache = lru.m_cache
                       /\ lru'.m_size = lru.m_size
                       /\ ttl'.m_hash_tbl = ttl.m_hash_tbl
                       /\ CacheList' = SelectSeq(CacheList, LAMBDA k : k # last'.key)
                                           \o <<last'.key>>
      ]_vars

\* emplace has just returned true for a key of a TTL cache that was stored
\* and expired: the key holds the constructed value.
C8_Witness ==
    /\ cache_type = "ttl"
    /\ last.op = "emplace" /\ last.found /\ last.expired /\ last.ret
    /\ base_ttl_cache_load(ttl, last.key) = last.val
    /\ ttl_cache_size(ttl) = 2

(* C9: either engine.  erase(k) on a stored key removes k: a find(k) or     *)
(* contains(k) that follows reports it absent, size() is one less, and all  *)
(* other keys, their values and their relative order in the recency list    *)
(* are unchanged.                                                           *)
C9_ErasePresent ==
    [][ /\ ( last'.op = "erase" /\ last'.key \in CacheKeys )
            => /\ CacheKeys' = CacheKeys \ {last'.key}
               /\ CacheSize' = CacheSize - 1
               /\ \A k \in CacheKeys' :
                      StoredValue(lru', ttl', k) = StoredValue(lru, ttl, k)
               /\ \A k \in DOMAIN ttl'.m_hash_tbl :
                      ttl'.m_hash_tbl[k] = ttl.m_hash_tbl[k]
               /\ CacheList' = SelectSeq(CacheList, LAMBDA k : k # last'.key)
               /\ ~lru_cache_contains(lru', last'.key).ret
               /\ ~lru_cache_find(lru', last'.key).ret
               /\ ~ttl_cache_contains(ttl', last'.key, now).ret
               /\ ~ttl_cache_find(ttl', last'.key, now).ret
        /\ ( /\ last.op = "erase" /\ last.found
              /\ last'.op \in {"find", "contains"} /\ last'.key = last.key )
            => ~last'.ret /\ ~last'.found
      ]_vars

\* erase(k) has just removed a stored key, one other key remains.
C9_Witness ==
    /\ last.op = "erase" /\ last.found
    /\ last.key \notin CacheKeys
    /\ ~CacheContains(last.key)
    /\ CacheSize = 1 /\ CacheCapacity = 2

(* C10: either engine.  erase(k) on a key that is not stored leaves the     *)
(* whole state as it is and returns normally; a second erase(k) right after *)
(* a first changes nothing more.                                            *)
C10_EraseAbsent ==
    [][ /\ ( last'.op = "erase" /\ last'.key \notin CacheKeys )
            => /\ lru' = lru /\ ttl' = ttl
               /\ last'.ret
        /\ ( /\ last.op = "erase"
              /\ last'.op = "erase" /\ last'.key = last.key )
            => /\ lru' = lru /\ ttl' = ttl
               /\ ~last'.found
      ]_vars

\* erase(k) has just returned for a key that a full cache does not store.
C10_Witness ==
    /\ last.op = "erase" /\ ~last.found /\ last.ret
    /\ CacheSize = CacheCapacity /\ CacheCapacity = 2

C13_ShardsCount ==
    /\ thread_safe_cache_shards_size(cache)
           = (IF built.shards_count < built.capacity THEN built.shards_count
                                                      ELSE built.capacity)
    /\ built.capacity = 1 /\ thread_safe_cache_capacity(cache) = 1 =>
           /\ thread_safe_cache_shards_size(cache) = 1
           /\ Cardinality(AllKeys(cache)) <= 1
           /\ last.op = "insert" => AllKeys(cache) = {last.key}

\* More shards were asked for than the capacity, and a reserve or reset to a
\* larger capacity has returned: the shard count is still the first capacity.
C13_Witness ==
    /\ built.shards_count > built.capacity
    /\ last.op \in {"reserve", "reset"}
    /\ thread_safe_cache_capacity(cache) > built.capacity
    /\ thread_safe_cache_shards_size(cache) = built.capacity

RECURSIVE SumCapacities(_)
\* The sum of the capacities of a sequence of shards.
SumCapacities(shards) ==
    IF shards = <<>> THEN 0
    ELSE shard_cap(Head(shards).first) + SumCapacities(Tail(shards))

\* No reserve or reset has begun without having returned.
Resized == \A t \in Threads : thr[t].op \notin {"reserve", "reset"}

\* C14: whenever no reserve or reset is under way, the first shard has the
\* capacity capacity() / shards + capacity() % shards, every other shard
\* capacity() / shards, and the capacities of the shards add up to capacity().
C14_AsStated ==
    Resized =>
        /\ \A i \in DOMAIN cache.m_shards :
               shard_cap(cache.m_shards[i].first)
                   = shard_capacity(i - 1, thread_safe_cache_capacity(cache),
                                    thread_safe_cache_shards_size(cache))
        /\ SumCapacities(cache.m_shards) = thread_safe_cache_capacity(cache)

\* Both threads have returned from a reserve or reset, and the capacities of
\* the shards do not add up to capacity().
C14_Witness ==
    /\ \A t \in Threads : thr[t].pc = "idle" /\ thr[t].left < MaxCalls
    /\ SumCapacities(cache.m_shards) # thread_safe_cache_capacity(cache)

C16_Exclusive ==
    /\ [](\A i \in DOMAIN cache.m_shards :
             /\ Cardinality({t \in Threads : i \in thr[t].holds}) <= 1
             /\ cache.m_shards[i].second <=> \E t \in Threads : i \in thr[t].holds)
    /\ [][/\ \A i \in DOMAIN cache.m_shards :
                cache'.m_shards[i].first # cache.m_shards[i].first =>
                    \E t \in Threads : /\ thr[t].pc = "held"
                                        /\ thr[t].i = i
                                        /\ thr'[t].pc # "held"
          /\ \A t \in Threads :
                thr[t].pc = "held" /\ thr'[t].pc # "held" /\ thr[t].op \in KeyOps =>
                    LET i == thr[t].i
                        r == shard_call(cache.m_shards[i].first, thr[t].op,
                                        thr[t].key, thr[t].val, now)
                    IN  /\ cache.m_shards[i].second
                        /\ ~cache'.m_shards[i].second
                        /\ cache'.m_shards[i].first = r.c
                        /\ last'.t = t
                        /\ last'.ret = r.ret
                        /\ last'.result = r.result]_vars

\* One thread is inside wrapper on a shard while another spins on its lock.
C16_Witness ==
    \E t, u \in Threads :
        /\ thr[t].pc = "held"
        /\ thr[u].pc = "lock"
        /\ thr[u].i = thr[t].i

\* C17: a thread holds at most one shard lock, the one of the shard it is
\* working on, and none while it waits for a lock; and whenever some thread is
\* inside a call, some thread can take a step: not every running thread is
\* waiting for a lock that is taken.
C17_NoDeadlock ==
    /\ \A t \in Threads :
           /\ Cardinality(thr[t].holds) <= 1
           /\ thr[t].holds \subseteq {thr[t].i}
           /\ thr[t].pc = "lock" => thr[t].holds = {}
    /\ (\E t \in Threads : thr[t].pc # "idle") =>
           \E t \in Threads :
               \/ thr[t].pc \in {"held", "store"}
               \/ thr[t].pc = "lock" /\ ~cache.m_shards[thr[t].i].second

\* A call that visits every shard is inside its second shard while another
\* thread is inside the first.
C17_Witness ==
    \E t, u \in Threads :
        /\ thr[t].pc = "held"
        /\ thr[t].op \in {"clear", "empty", "size", "reserve", "reset"}
        /\ thr[t].i = 2
        /\ thr[u].pc = "held"
        /\ thr[u].i = 1

\* C18: with threads that store the key as the value, a find that hits
\* returns the value of its key, which is the value the shard held for the key
\* when the find ran; and every shard holds, for every key, the value some
\* insert stored for that key, also after inserts that evicted.
C18_HitValue ==
    /\ [](\A i \in DOMAIN cache.m_shards :
             \A k \in shard_keys(cache.m_shards[i].first) :
                 shard_value(cache.m_shards[i].first, k) = KeyValue(k))
    /\ [][\A t \in Threads :
             (thr[t].op = "find" /\ thr[t].pc = "held" /\ thr'[t].pc = "idle"
                 /\ last'.ret) =>
                 /\ last'.result = KeyValue(thr[t].key)
                 /\ last'.result
                        = shard_value(cache.m_shards[thr[t].i].first, thr[t].key)]_vars

\* A find has hit in a full shard while the other thread is about to insert
\* a key that is not stored into the same shard, which will evict.
C18_Witness ==
    \E u \in Threads :
        /\ last.op = "find"
        /\ last.ret
        /\ last.t # u
        /\ thr[u].op = "insert"
        /\ thr[u].pc = "lock"
        /\ thr[u].i = last.i
        /\ thr[u].key \notin shard_keys(cache.m_shards[last.i].first)
        /\ shard_size(cache.m_shards[last.i].first)
               = shard_cap(cache.m_shards[last.i].first)

\* Every thread has made its calls and returned from the last.
Finished == \A t \in Threads : thr[t].pc = "idle" /\ thr[t].left = 0

\* C19 as stated: after threads that only insert, without an eviction the
\* inserts that returned true are as many as size(); with an eviction size()
\* is capacity() and the inserts that returned true are at least capacity().
C19_AsStated ==
    Finished =>
        IF tally.evicted
        THEN /\ SumSizes(cache.m_shards) = thread_safe_cache_capacity(cache)
             /\ tally.trues >= thread_safe_cache_capacity(cache)
        ELSE tally.trues = SumSizes(cache.m_shards)

\* C19: after threads that only insert, without an eviction the inserts that
\* returned true are as many as size(); with an eviction a shard is full,
\* size() is at most capacity() and the inserts that returned true are more
\* than size().
C19_Inserts ==
    Finished =>
        IF tally.evicted
        THEN /\ \E i \in DOMAIN cache.m_shards :
                    shard_size(cache.m_shards[i].first)
                        = shard_cap(cache.m_shards[i].first)
             /\ SumSizes(cache.m_shards) <= thread_safe_cache_capacity(cache)
             /\ tally.trues > SumSizes(cache.m_shards)
        ELSE tally.trues = SumSizes(cache.m_shards)

\* The threads are done, an insert has evicted, and size() is below capacity().
C19_Witness ==
    /\ Finished
    /\ tally.evicted
    /\ SumSizes(cache.m_shards) < thread_safe_cache_capacity(cache)
    /\ tally.trues < thread_safe_cache_capacity(cache)

\* C20: an insert of a key that is not stored evicts exactly when the shard
\* the key is routed to is full, whatever the size of the whole cache; the key
\* evicted is the least recently used of that shard, and no other shard
\* changes.  (That this happens below capacity() and to a key that is not the
\* least recently used of the whole cache is the witness.)
C20_ShardEviction ==
    [][\A t \in Threads :
          (thr[t].op = "insert" /\ thr[t].pc = "held" /\ thr'[t].pc = "idle") =>
              LET i == thr[t].i
                  sh == cache.m_shards[i].first
                  after == cache'.m_shards[i].first
              IN  /\ \A j \in DOMAIN cache.m_shards \ {i} :
                         cache'.m_shards[j] = cache.m_shards[j]
                  /\ thr[t].key \notin shard_keys(sh) =>
                         /\ last'.ret
                         /\ IF shard_size(sh) = shard_cap(sh)
                            THEN /\ shard_keys(after)
                                        = (shard_keys(sh) \ {Head(shard_list(sh))})
                                              \cup {thr[t].key}
                                 /\ shard_size(after) = shard_size(sh)
                            ELSE /\ shard_keys(after) = shard_keys(sh) \cup {thr[t].key}
                                 /\ shard_size(after) = shard_size(sh) + 1]_vars

\* An insert has just evicted from its shard while size() is below
\* capacity(), and some insert evicted below capacity() a key that was not the
\* least recently used of the whole cache.
C20_Witness ==
    /\ last.op = "insert"
    /\ last.ret
    /\ tally.early
    /\ SumSizes(cache.m_shards) < thread_safe_cache_capacity(cache)
    /\ shard_size(cache.m_shards[last.i].first) = shard_cap(cache.m_shards[last.i].first)
    /\ \E j \in DOMAIN cache.m_shards :
           shard_size(cache.m_shards[j].first) < shard_cap(cache.m_shards[j].first)

(* C21: TTL cache.  A key that was inserted, is still stored (not erased,    *)
(* not evicted) and has not been touched for more than time_to_live is      *)
(* reported absent: find(k) returns false and delivers no value, and        *)
(* contains(k) returns false.  Stated for the first key inserted into the   *)
(* constructed cache when no call has touched it since (now - t0 exceeds    *)
(* the time to live), and for every stored key that is_expired holds of.    *)
C21_ExpiredAbsent ==
    [][ /\ ( /\ cache_type = "ttl"
             /\ run.ok /\ run.acc = <<>> /\ run.post = <<>> /\ run.ins # <<>>
             /\ last'.op \in {"find", "contains"}
             /\ last'.key = run.ins[1]
             /\ base_ttl_cache_is_find(ttl, last'.key)
             /\ now - run.t0 > ttl.m_time_to_live )
           => ~last'.ret /\ last'.result = NoValue
        /\ ( /\ cache_type = "ttl"
             /\ last'.op \in {"find", "contains"}
             /\ last'.found /\ last'.expired )
           => ~last'.ret /\ last'.result = NoValue
      ]_vars

\* find or contains has just been called with a stored key whose age
\* exceeded the time to live, and has returned false.
C21_Witness ==
    /\ cache_type = "ttl"
    /\ last.op \in {"find", "contains"}
    /\ last.found /\ last.expired
    /\ ~last.ret /\ last.result = NoValue
    /\ now > ttl.m_time_to_live

(* C22: TTL cache.  find(k) on a stored but expired key removes the entry    *)
(* from the index and from the recency list (size() decreases by exactly 1, *)
(* every other entry and the order of the others unchanged) and returns     *)
(* false; find(k) on a stored and fresh key moves k to the most recently    *)
(* used end of the list and returns (true, stored value), size() unchanged. *)
C22_Find ==
    [][ \A key \in Keys :
          ( /\ cache_type = "ttl"
            /\ last'.op = "find" /\ last'.key = key /\ last'.found )
          => IF last'.expired
             THEN /\ ~last'.ret /\ last'.result = NoValue
                  /\ ttl_cache_size(ttl') = ttl_cache_size(ttl) - 1
                  /\ DOMAIN ttl'.m_hash_tbl = (DOMAIN ttl.m_hash_tbl) \ {key}
                  /\ \A x \in DOMAIN ttl'.m_hash_tbl :
                         ttl'.m_hash_tbl[x] = ttl.m_hash_tbl[x]
                  /\ ttl'.m_ttl_list = list_erase(ttl.m_ttl_list, key)
                  /\ Len(ttl'.m_ttl_list) = Len(ttl.m_ttl_list) - 1
             ELSE /\ last'.ret /\ last'.result = ttl.m_hash_tbl[key].value
                  /\ ttl_cache_size(ttl') = ttl_cache_size(ttl)
                  /\ DOMAIN ttl'.m_hash_tbl = DOMAIN ttl.m_hash_tbl
                  /\ \A x \in DOMAIN ttl.m_hash_tbl :
                         ttl'.m_hash_tbl[x].value = ttl.m_hash_tbl[x].value
                  /\ ttl'.m_ttl_list = list_erase(ttl.m_ttl_list, key) \o <<key>>
      ]_vars

\* find has just erased an expired key from a cache that stores another key.
C22_Witness ==
    /\ cache_type = "ttl"
    /\ last.op = "find" /\ last.found /\ last.expired /\ ~last.ret
    /\ ~base_ttl_cache_is_find(ttl, last.key)
    /\ ttl_cache_size(ttl) >= 1

(* C23: TTL cache.  insert(k, v) and emplace(k, args) on a key that is       *)
(* stored but expired return true, overwrite the stored value with the new  *)
(* one and do not change size(); on a stored and fresh key they return      *)
(* false and leave the value unchanged.                                     *)
C23_InsertStored ==
    [][ \A key \in Keys :
          ( /\ cache_type = "ttl"
            /\ last'.op \in {"insert", "emplace"}
            /\ last'.key = key /\ last'.found )
          => /\ ttl_cache_size(ttl') = ttl_cache_size(ttl)
             /\ DOMAIN ttl'.m_hash_tbl = DOMAIN ttl.m_hash_tbl
             /\ IF last'.expired
                THEN last'.ret /\ ttl'.m_hash_tbl[key].value = last'.val
                ELSE ~last'.ret
                     /\ ttl'.m_hash_tbl[key].value = ttl.m_hash_tbl[key].value
      ]_vars

\* insert or emplace has just overwritten the value of an expired key and
\* returned true.
C23_Witness ==
    /\ cache_type = "ttl"
    /\ last.op \in {"insert", "emplace"}
    /\ last.found /\ last.expired /\ last.ret
    /\ ttl.m_hash_tbl[last.key].value = last.val
    /\ now > 0

(* C24 as stated: get(k) is find(k) with a functional-style return.  From    *)
(* every reachable state, a stored but expired k included, get(k) returns   *)
(* a value exactly when find(k) would return true, that same value, and     *)
(* leaves the cache in the state find(k) would leave it in: same keys,      *)
(* size, recency order and time points.                                     *)
C24_AsStated ==
    [][ \A key \in Keys :
          ( /\ cache_type = "ttl"
            /\ last'.op = "get" /\ last'.key = key )
          => /\ last'.ret = ttl_cache_find(ttl, key, now).ret
             /\ last'.result = ttl_cache_find(ttl, key, now).result
             /\ ttl' = ttl_cache_find(ttl, key, now).c
      ]_vars

\* get has just been called with a stored, expired key: it returned no value
\* and the key is still stored, where find would have erased it.
C24_Witness ==
    /\ cache_type = "ttl"
    /\ last.op = "get" /\ last.found /\ last.expired /\ ~last.ret
    /\ base_ttl_cache_is_find(ttl, last.key)
    /\ ~base_ttl_cache_is_find(ttl_cache_find(ttl, last.key, now).c, last.key)

(* C25: LRU cache.  reserve(n) with n >= the current capacity sets           *)
(* capacity() == n and preserves the contents: keys, values, recency order  *)
(* and size() are unchanged, and an insert of an absent key made while      *)
(* size() < n (the next n - size() of them) evicts nothing.  reserve(n) of  *)
(* the sharded LRU cache gives shard 0 n / shards + n % shards and every    *)
(* other shard n / shards, the shards keeping their entries, and then       *)
(* assigns n to the capacity of the whole cache.                            *)
C25_Reserve ==
    [][ /\ ( /\ thr = <<>> /\ last'.op = "reserve"
             /\ last'.key >= lru_cache_capacity(lru) )
           => /\ lru_cache_capacity(lru') = last'.key
              /\ lru'.m_cache = lru.m_cache
              /\ lru'.m_lru_list = lru.m_lru_list
              /\ lru_cache_size(lru') = lru_cache_size(lru)
        /\ ( /\ thr = <<>> /\ last'.op = "insert" /\ ~last'.found
             /\ lru_cache_size(lru) < lru_cache_capacity(lru) )
           => /\ \A k \in DOMAIN lru.m_cache :
                     k \in DOMAIN lru'.m_cache /\ lru'.m_cache[k] = lru.m_cache[k]
              /\ lru_cache_size(lru') = lru_cache_size(lru) + 1
        /\ ( /\ thr # <<>> /\ thr[1].op = "reserve"
             /\ thr[1].pc = "held" /\ thr'[1].pc # "held" )
           => LET i == thr[1].i
                  n == thr[1].cap
                  shards_count == Len(cache.m_shards)
                  was == cache.m_shards[i].first
                  is == cache'.m_shards[i].first
              IN  /\ Len(cache'.m_shards) = shards_count
                  /\ \A j \in (1 .. shards_count) \ {i} :
                         cache'.m_shards[j].first = cache.m_shards[j].first
                  /\ is.m_cache = was.m_cache
                  /\ is.m_lru_list = was.m_lru_list
                  /\ is.m_size = was.m_size
                  /\ is.m_capacity = IF i = 1
                                     THEN (n \div shards_count) + (n % shards_count)
                                     ELSE n \div shards_count
        /\ ( /\ thr # <<>> /\ thr[1].pc = "store" /\ thr'[1].pc = "idle" )
           => /\ thread_safe_cache_capacity(cache') = thr[1].cap
              /\ AllKeys(cache') = AllKeys(cache)
              /\ \A j \in 1 .. Len(cache'.m_shards) :
                     shard_cap(cache'.m_shards[j].first)
                         = IF j = 1
                           THEN (thr[1].cap \div Len(cache.m_shards))
                                    + (thr[1].cap % Len(cache.m_shards))
                           ELSE thr[1].cap \div Len(cache.m_shards)
      ]_vars

\* reserve has just grown a cache that stores keys: the engine, from the
\* capacity it was constructed with.
C25_Witness ==
    /\ cache_type = "lru" /\ thr = <<>>
    /\ last.op = "reserve"
    /\ last.key = lru_cache_capacity(lru)
    /\ lru_cache_capacity(lru) > since.capacity
    /\ lru_cache_size(lru) >= 1
    /\ lru_cache_size(lru) < lru_cache_capacity(lru)

(* C26: size() and empty() of the sharded cache read the shards one after    *)
(* another, each under its own lock and never two locks at once.  When the  *)
(* element count of the cache does not change between the call and its      *)
(* return, size() returns the sum of the shard sizes and empty() returns    *)
(* whether that sum is zero.  (That size() can return a number the cache    *)
(* never held during the call, when per-key calls run beside it, is the     *)
(* state C26_Witness describes.)                                            *)
C26_SizeQuiet ==
    /\ [][ ( /\ thr[1].op \in {"size", "empty"}
             /\ thr[1].pc = "held" /\ thr'[1].pc = "idle"
             /\ tally'.seen = {SumSizes(cache.m_shards)} )
           => IF thr[1].op = "size"
              THEN last'.n = SumSizes(cache'.m_shards)
              ELSE last'.ret = (SumSizes(cache'.m_shards) = 0)
         ]_vars
    /\ [](\A t \in Threads :
              /\ Cardinality(thr[t].holds) <= 1
              /\ thr[t].pc = "held" => thr[t].holds = {thr[t].i})

\* size() has just returned a number that the element count of the cache
\* was at no instant between the call and the return.
C26_Witness ==
    /\ last.op = "size" /\ last.t = 1
    /\ ~tally.live /\ tally.seen # {}
    /\ last.n \notin tally.seen

(* C27: in every reachable state of a cache engine, LRU and TTL, the index   *)
(* and the recency list have the same members: a key is in the index if and *)
(* only if it occurs in the list, it occurs there once, and size() equals   *)
(* the number of index entries and the length of the list.                  *)
C27_SameMembership ==
    /\ SeqRange(CacheList) = CacheKeys
    /\ \A i, j \in DOMAIN CacheList : CacheList[i] = CacheList[j] => i = j
    /\ CacheSize = Cardinality(CacheKeys)
    /\ CacheSize = Len(CacheList)

\* A full cache of the largest capacity just after a call that erased a key
\* stored in it, or that stored a new key in place of the list head.
C27_Witness ==
    \/ /\ last.op = "erase" /\ last.found
       /\ CacheSize = CacheCapacity - 1 /\ CacheSize >= 1
    \/ /\ last.op \in {"insert", "emplace", "update"} /\ ~last.found
       /\ CacheSize = CacheCapacity /\ CacheCapacity = MaxCapacity
       /\ CacheList[Len(CacheList)] = last.key
       /\ run = RunOver

(* C28: TTL cache.  The expiration predicate is strict: an entry whose age   *)
(* (now - time_point, in whole milliseconds) equals time_to_live is not     *)
(* expired and is returned by find and contains; it is expired if and only  *)
(* if its age is greater than time_to_live.                                 *)
C28_StrictExpiry ==
    [][ \A key \in Keys :
          ( /\ cache_type = "ttl"
            /\ last'.op \in {"find", "contains"}
            /\ last'.key = key /\ last'.found )
          => LET age == now - ttl.m_hash_tbl[key].time_point
             IN  /\ last'.expired <=> age > ttl.m_time_to_live
                 /\ last'.ret <=> age <= ttl.m_time_to_live
                 /\ age = ttl.m_time_to_live
                        => /\ last'.ret
                           /\ base_ttl_cache_is_find(ttl', key)
                           /\ last'.op = "find"
                                  => last'.result = ttl.m_hash_tbl[key].value
      ]_vars

\* find or contains has just returned true for an entry whose age is the
\* time to live, one millisecond.
C28_Witness ==
    /\ cache_type = "ttl"
    /\ last.op \in {"find", "contains"} /\ last.found /\ last.ret
    /\ ttl.m_time_to_live = 1
    /\ now - ttl.m_hash_tbl[last.key].time_point = 1

(* C29: TTL cache.  Expiration is lazy.  The passage of time alone changes   *)
(* neither size() nor empty() nor the stored keys.  contains(k) on a stored *)
(* but expired key returns false and leaves the whole cache as it was: the  *)
(* entry stays stored, counts in size() and keeps its place in the list.    *)
(* A stored key leaves the cache only through find on it when expired,      *)
(* erase of it, the eviction of the list head by a call that stores a new   *)
(* key in a full cache, clear or reset.                                     *)
C29_LazyExpiry ==
    [][ /\ ( cache_type = "ttl" /\ last'.op = "tick" )
           => /\ ttl' = ttl
              /\ ttl_cache_size(ttl') = ttl_cache_size(ttl)
              /\ ttl_cache_empty(ttl') = ttl_cache_empty(ttl)
        /\ ( /\ cache_type = "ttl"
             /\ last'.op = "contains" /\ last'.found /\ last'.expired )
           => ~last'.ret /\ ttl' = ttl
        /\ \A key \in Keys :
             ( /\ cache_type = "ttl"
               /\ base_ttl_cache_is_find(ttl, key)
               /\ ~base_ttl_cache_is_find(ttl', key) )
             => \/ last'.op \in {"clear", "reset"}
                \/ last'.op = "erase" /\ last'.key = key
                \/ last'.op = "find" /\ last'.key = key /\ last'.expired
                \/ /\ last'.op \in {"insert", "emplace", "update"}
                   /\ ~last'.found
                   /\ ttl_cache_size(ttl) >= ttl_cache_capacity(ttl)
                   /\ key = Head(ttl.m_ttl_list)
      ]_vars

\* contains has just returned false for an expired key that is still
\* stored, at the head of the list of a full cache.
C29_Witness ==
    /\ cache_type = "ttl"
    /\ last.op = "contains" /\ last.found /\ last.expired /\ ~last.ret
    /\ base_ttl_cache_is_find(ttl, last.key)
    /\ ttl_cache_size(ttl) = ttl_cache_capacity(ttl)
    /\ ttl_cache_size(ttl) >= 2
    /\ Head(ttl.m_ttl_list) = last.key

(* C30 as stated: TTL cache.  Every touch of a fresh entry (a contains hit,  *)
(* a find hit, update, insert on the stored key) sets its time point to the *)
(* current time, so an entry touched at intervals of at most time_to_live   *)
(* never expires.                                                           *)
C30_AsStated ==
    [][ \A key \in Keys :
          ( /\ cache_type = "ttl"
            /\ last'.op \in {"contains", "find", "update", "insert", "emplace"}
            /\ last'.key = key /\ last'.found /\ ~last'.expired )
          => /\ base_ttl_cache_is_find(ttl', key)
             /\ ttl'.m_hash_tbl[key].time_point = now
             /\ ~base_ttl_cache_is_expired(ttl', key, now + ttl.m_time_to_live)
      ]_vars

\* A call has just touched a fresh entry one millisecond after it was
\* stored, and the entry still carries the time at which it was stored.
C30_Witness ==
    /\ cache_type = "ttl"
    /\ last.op \in {"contains", "find", "update", "insert"}
    /\ last.found /\ ~last.expired
    /\ base_ttl_cache_is_find(ttl, last.key)
    /\ ttl.m_hash_tbl[last.key].time_point < now
    /\ base_ttl_cache_is_expired(ttl, last.key, now + ttl.m_time_to_live)

(* C31 as stated: TTL cache.  After insert(k, v), emplace(k, args) or        *)
(* update(k, v) on a key that is stored but expired the entry carries a     *)
(* fresh time point: find(k), called next with no time elapsed, returns     *)
(* (true, v) and does not erase the entry.                                  *)
C31_AsStated ==
    [][ \A key \in Keys :
          ( /\ cache_type = "ttl"
            /\ last.op \in {"insert", "emplace", "update"}
            /\ last.key = key /\ last.found /\ last.expired
            /\ last'.op = "find" /\ last'.key = key )
          => /\ last'.ret
             /\ last'.result = last.val
             /\ base_ttl_cache_is_find(ttl', key)
      ]_vars

\* insert or update has just overwritten the value of an expired key, and
\* the entry is as expired as before: find, called now, returns false.
C31_Witness ==
    /\ cache_type = "ttl"
    /\ last.op \in {"insert", "update"}
    /\ last.found /\ last.expired
    /\ base_ttl_cache_is_find(ttl, last.key)
    /\ base_ttl_cache_load(ttl, last.key) = last.val
    /\ base_ttl_cache_is_expired(ttl, last.key, now)
    /\ ~ttl_cache_find(ttl, last.key, now).ret

(* C32: TTL cache.  When a key that is not stored is inserted into a full    *)
(* cache the victim is the head of the recency list, as in the LRU engine,  *)
(* whatever has expired: the head goes even when it is fresh and another    *)
(* stored entry is expired, and that entry stays.                           *)
C32_HeadIsVictim ==
    [][ ( /\ cache_type = "ttl"
          /\ last'.op \in {"insert", "emplace", "update"}
          /\ ~last'.found
          /\ ttl_cache_size(ttl) >= ttl_cache_capacity(ttl) )
        => /\ DOMAIN ttl'.m_hash_tbl
                  = ((DOMAIN ttl.m_hash_tbl) \ {Head(ttl.m_ttl_list)}) \cup {last'.key}
           /\ ttl'.m_ttl_list = Tail(ttl.m_ttl_list) \o <<last'.key>>
           /\ \A k \in (DOMAIN ttl.m_hash_tbl) \ {Head(ttl.m_ttl_list)} :
                  ttl'.m_hash_tbl[k] = ttl.m_hash_tbl[k]
           /\ ttl'.m_hash_tbl[last'.key].value = last'.val
           /\ ttl_cache_size(ttl') = ttl_cache_size(ttl)
      ]_vars

\* A full cache whose list head is fresh while another stored entry is
\* expired: insert of a key that is not stored, called now, returns true,
\* drops the head and keeps the expired entry.
C32_Witness ==
    /\ cache_type = "ttl"
    /\ ttl_cache_size(ttl) = ttl_cache_capacity(ttl)
    /\ ttl_cache_size(ttl) >= 2
    /\ ~base_ttl_cache_is_expired(ttl, Head(ttl.m_ttl_list), now)
    /\ \E e \in DOMAIN ttl.m_hash_tbl, k \in Keys \ DOMAIN ttl.m_hash_tbl :
           LET r == ttl_cache_insert(ttl, k, "aaa", now)
           IN  /\ base_ttl_cache_is_expired(ttl, e, now)
               /\ r.ret
               /\ Head(ttl.m_ttl_list) \notin DOMAIN r.c.m_hash_tbl
               /\ e \in DOMAIN r.c.m_hash_tbl

(* C33 as stated: a mutating call that fails part-way (an allocation fails,  *)
(* or the construction of the key or the value throws, in particular in an  *)
(* insert into a full cache after the victim was unlinked) leaves the cache *)
(* as it was before the call: same keys, values, recency order and size,    *)
(* the index and the recency list with the same members.                    *)
C33_AsStated ==
    [][ ( cache_type = "lru" /\ last'.op = "throw" )
        => /\ lru'.m_cache = lru.m_cache
           /\ lru'.m_lru_list = lru.m_lru_list
           /\ lru_cache_size(lru') = lru_cache_size(lru)
           /\ SeqRange(lru'.m_lru_list) = DOMAIN lru'.m_cache
           /\ lru_cache_size(lru') = Cardinality(DOMAIN lru'.m_cache)
      ]_vars

\* insert into a full cache has just thrown in m_cache.emplace: the victim
\* has left the index, the list names the new key, which the index does not
\* hold, and size() counts an entry more than the index has.
C33_Witness ==
    /\ cache_type = "lru"
    /\ last.op = "throw" /\ last.result = "m_cache.emplace"
    /\ lru_cache_size(lru) = lru_cache_capacity(lru)
    /\ Head(lru.m_lru_list) = last.key
    /\ last.key \notin DOMAIN lru.m_cache
    /\ lru_cache_size(lru) = Cardinality(DOMAIN lru.m_cache) + 1

(* C34 as stated: intrusive backend.  Every node that leaves the cache is    *)
(* destroyed: in every reachable state the nodes allocated are the nodes    *)
(* linked in the index and the recency list (erase, find on an expired key, *)
(* clear and reset free what they unlink, eviction reuses the victim's      *)
(* node), and there are never more allocated nodes than capacity().         *)
C34_AsStated ==
    cache_type = "ttl"
        => /\ tally.nodes = ttl_cache_size(ttl)
           /\ tally.nodes <= ttl_cache_capacity(ttl)

\* erase, find on an expired key, clear or reset has just removed entries,
\* and more nodes are on the heap than the cache links.
C34_Witness ==
    /\ cache_type = "ttl"
    /\ \/ last.op = "erase" /\ last.found
       \/ last.op = "find" /\ last.found /\ last.expired
       \/ last.op \in {"clear", "reset"}
    /\ tally.nodes > ttl_cache_size(ttl)

(* C35 as stated: the intrusive backend and the map-and-list backend of an   *)
(* engine are functionally identical: given the same calls and the same     *)
(* clock they return the same results and keep the same keys, values,       *)
(* recency order and, for TTL, the same time points, also after an insert   *)
(* that evicts from a full cache.  Stated for the TTL engine call by call:  *)
(* from a state the two backends share, insert and contains leave the       *)
(* intrusive backend where they leave the std backend.                      *)
C35_AsStated ==
    [][ /\ ( cache_type = "ttl" /\ last'.op = "insert" )
           => LET std == std_ttl_cache_insert(ttl, last'.key, last'.val, now)
              IN  last'.ret = std.ret /\ ttl' = std.c
        /\ ( cache_type = "ttl" /\ last'.op = "contains" )
           => LET std == std_ttl_cache_contains(ttl, last'.key, now)
              IN  last'.ret = std.ret /\ ttl' = std.c
      ]_vars

\* insert has just stored a new key in the node of the evicted head: with
\* the intrusive backend the entry carries the time point of the head,
\* with the std backend it would carry the time of the insert.
C35_Witness ==
    /\ cache_type = "ttl"
    /\ last.op = "insert" /\ ~last.found /\ last.ret
    /\ ttl_cache_size(ttl) = ttl_cache_capacity(ttl)
    /\ ttl.m_hash_tbl[last.key].time_point < now

(* C36 as stated: the front-emplace/back-pop LRU variant has the external    *)
(* contract of the head-eviction engine: the same calls return the same     *)
(* results and leave the same keys and values, in particular an insert of   *)
(* a stored key followed by an evicting insert.  Stated from every          *)
(* reachable cache of capacity >= 1, held by both implementations in the    *)
(* same recency order: insert(key, val) and then insert(next, val) return   *)
(* the same and leave the same map.                                          *)
C36_AsStated ==
    ( cache_type = "lru" /\ lru_cache_capacity(lru) >= 1 )
    => \A key, next \in Keys : \A val \in Values :
         LET head1   == lru_cache_insert(lru, key, val)
             head2   == lru_cache_insert(head1.c, next, val)
             simple1 == simple_lru_cache_insert(simple_lru_cache_of(lru), key, val)
             simple2 == simple_lru_cache_insert(simple1.c, next, val)
         IN  /\ head1.ret = simple1.ret
             /\ head2.ret = simple2.ret
             /\ head2.c.m_cache = simple2.c.m_cache

\* A full cache of two entries whose least recent key has just been
\* inserted again: the engine has moved it to the top, the variant would
\* have left it the victim of the next insert.
C36_Witness ==
    /\ cache_type = "lru"
    /\ last.op = "insert" /\ last.found /\ ~last.ret
    /\ lru_cache_size(lru) = lru_cache_capacity(lru)
    /\ lru_cache_size(lru) >= 2
    /\ lru.m_lru_list[Len(lru.m_lru_list)] = last.key
    /\ \E back \in DOMAIN lru.m_cache :
         /\ back = Head(lru.m_lru_list)
         /\ \E next \in Keys \ DOMAIN lru.m_cache :
              back \notin DOMAIN lru_cache_insert(lru, next, last.val).c.m_cache

(* C37 as stated: LRU cache.  size() <= capacity() holds in every state,    *)
(* also after reserve(n) with n smaller than the current size(), and under  *)
(* the inserts that follow.                                                  *)
C37_AsStated ==
    ( cache_type = "lru" /\ thr = <<>> )
    => lru_cache_size(lru) <= lru_cache_capacity(lru)

\* reserve(n) has just returned with n below the number of entries held.
C37_Witness ==
    /\ cache_type = "lru" /\ thr = <<>>
    /\ last.op = "reserve"
    /\ lru_cache_capacity(lru) = last.key
    /\ last.key < lru_cache_size(lru)
    /\ Len(lru.m_lru_list) = lru_cache_size(lru)

(* C38 as stated: sharded cache.  In every reachable state, also after      *)
(* reset(ttl, n) or reserve(n) with 1 <= n < the number of shards, every    *)
(* shard has capacity >= 1, and no insert takes the eviction path on an     *)
(* empty recency list.                                                       *)
C38_AsStated ==
    thr # <<>>
    => /\ \A i \in DOMAIN cache.m_shards : shard_cap(cache.m_shards[i].first) >= 1
       /\ \A t \in Threads : ~EvictsEmpty(t)

\* reset or reserve with fewer elements than shards has left a shard of
\* capacity 0, and an insert routed to it is inside wrapper.
C38_Witness ==
    /\ thr # <<>>
    /\ thread_safe_cache_capacity(cache) >= 1
    /\ thread_safe_cache_capacity(cache) < thread_safe_cache_shards_size(cache)
    /\ EvictsEmpty(1)
    /\ shard_cap(cache.m_shards[thr[1].i].first) = 0

(* C39 as stated: TTL cache of capacity >= 1.  An entry made by inserting a  *)
(* key that is not stored carries the time of that insert, also when the    *)
(* insert evicts the head and reuses its node, however old the head was:    *)
(* find(k), called next, returns (true, v), and the entry stays findable    *)
(* for the whole time_to_live counted from the insert.                       *)
C39_AsStated ==
    [][ \A key \in Keys :
          /\ ( /\ cache_type = "ttl"
               /\ last'.op = "insert" /\ last'.key = key /\ ~last'.found )
             => /\ base_ttl_cache_is_find(ttl', key)
                /\ ttl'.m_hash_tbl[key].time_point = now
                /\ ~base_ttl_cache_is_expired(ttl', key, now + ttl'.m_time_to_live)
          /\ ( /\ cache_type = "ttl"
               /\ last.op = "insert" /\ last.key = key /\ ~last.found
               /\ last'.op = "find" /\ last'.key = key )
             => /\ last'.ret
                /\ last'.result = last.val
      ]_vars

\* insert has just stored an absent key in a full cache, in the node of a
\* head that had expired: the new entry is expired from the start and
\* find, called now, returns false.
C39_Witness ==
    /\ cache_type = "ttl"
    /\ last.op = "insert" /\ ~last.found /\ last.ret
    /\ ttl_cache_size(ttl) = ttl_cache_capacity(ttl)
    /\ base_ttl_cache_load(ttl, last.key) = last.val
    /\ base_ttl_cache_is_expired(ttl, last.key, now)
    /\ ~ttl_cache_find(ttl, last.key, now).ret

(* C40 as stated: sharded cache, every thread weakly fair.  Each call       *)
(* returns in the end: a thread that holds a shard's lock finishes the      *)
(* engine's method and releases the lock, waiting for no other lock, and a  *)
(* thread spinning in spinlock::lock() gets the lock in the end, also       *)
(* while other threads go on calling the same shard.                         *)
C40_AsStated ==
    \A t \in Threads :
        /\ (thr[t].pc = "held") ~> (thr[t].pc = "idle")
        /\ (thr[t].pc \in {"lock", "spin"}) ~> (thr[t].pc = "held")
        /\ (thr[t].pc # "idle") ~> (thr[t].pc = "idle")

\* Thread 1 is in the inner loop of spinlock::lock() while thread 2, back
\* from one call on that shard, holds its lock again.
C40_Witness ==
    /\ thr # <<>>
    /\ thr[1].pc = "spin"
    /\ thr[2].pc = "held" /\ thr[2].i = thr[1].i
    /\ cache.m_shards[thr[1].i].second
    /\ last.t = 2 /\ last.i = thr[1].i

====
